---- MODULE Spec2Model ----
(***************************************************************************)
(* A model of the meteo backend (src/backend/main.go): the station data    *)
(* cache and its reader/writer lock, the registry loads run by main, the   *)
(* geospatial search and the per-station ingestion.                        *)
(*                                                                         *)
(* Text is modelled as a sequence of one-character strings, so that the    *)
(* conversions (strconv.Atoi, time.Parse) are computed and not assumed.    *)
(* Time is counted in minutes.                                             *)
(***************************************************************************)
EXTENDS Integers, Sequences, FiniteSets, TLC

VARIABLES
    \* main(): its position, the two upstream feeds, the registry it builds
    mainpc, invFeed, stFeed, inventoryMap, allStations,
    loadInvRet, initStRet, invRuns, stRuns, handlers, listening,
    \* the search: the last call of findStations and the last answer of the handler
    query, found, searchResp,
    \* the station detail: the observations last aggregated and their summaries,
    \* and the last answer of the handler
    detail, stationResp,
    \* getStationData: per worker position and locals, the cache, the clock
    pc, id, entry, data, ret, nfetch, fetched, entries, mu, now, calls

mainVars == <<mainpc, invFeed, stFeed, inventoryMap, allStations,
              loadInvRet, initStRet, invRuns, stRuns, handlers, listening>>
cacheVars == <<pc, id, entry, data, ret, nfetch, fetched, entries, mu, now, calls>>
searchVars == <<query, found, searchResp, detail, stationResp>>
vars == <<mainVars, searchVars, cacheVars>>

----------------------------------------------------------------------------
(* Bounds of the model *)

NumWorkers == 2
MaxLines == 3
MaxRows == 2
MaxObs == 4
MaxCalls == 2
MaxTicks == 3
MaxRuns == 2
MaxStations == 3

Workers == 1..NumWorkers
Ids == {"STN001", "STN002"}

----------------------------------------------------------------------------
(* Text and the conversions of strconv and time *)

Digits == {"0", "1", "2", "3", "4", "5", "6", "7", "8", "9"}

DigitVal(c) ==
    CASE c = "0" -> 0 [] c = "1" -> 1 [] c = "2" -> 2 [] c = "3" -> 3
      [] c = "4" -> 4 [] c = "5" -> 5 [] c = "6" -> 6 [] c = "7" -> 7
      [] c = "8" -> 8 [] c = "9" -> 9

RECURSIVE DigitsVal(_)
DigitsVal(s) ==
    IF s = <<>> THEN 0
    ELSE 10 * DigitsVal(SubSeq(s, 1, Len(s) - 1)) + DigitVal(s[Len(s)])

AllDigits(s) == \A i \in 1..Len(s) : s[i] \in Digits

\* strconv.Atoi: an optional sign and at least one digit, nothing else.
Atoi(s) ==
    LET signed == Len(s) > 0 /\ s[1] \in {"+", "-"}
        body == IF signed THEN Tail(s) ELSE s
    IN  IF body = <<>> \/ ~AllDigits(body)
        THEN [ok |-> FALSE, val |-> 0]
        ELSE [ok |-> TRUE,
              val |-> IF signed /\ s[1] = "-" THEN 0 - DigitsVal(body)
                      ELSE DigitsVal(body)]

IsLeap(y) == (y % 4 = 0) /\ ((y % 100 # 0) \/ (y % 400 = 0))

DaysIn(m, y) ==
    IF m = 2 THEN (IF IsLeap(y) THEN 29 ELSE 28)
    ELSE IF m \in {4, 6, 9, 11} THEN 30 ELSE 31

\* time.Parse("20060102", s): four digits of year, two of month, two of day,
\* no text after them, the month and the day in range.
ParseDate(s) ==
    IF Len(s) # 8 \/ ~AllDigits(s) THEN [ok |-> FALSE, year |-> 0, month |-> 0, day |-> 0]
    ELSE LET y == DigitsVal(SubSeq(s, 1, 4))
             m == DigitsVal(SubSeq(s, 5, 6))
             d == DigitsVal(SubSeq(s, 7, 8))
         IN  IF m < 1 \/ m > 12 \/ d < 1 \/ d > DaysIn(m, y)
             THEN [ok |-> FALSE, year |-> 0, month |-> 0, day |-> 0]
             ELSE [ok |-> TRUE, year |-> y, month |-> m, day |-> d]

TMIN == <<"T", "M", "I", "N">>
TMAX == <<"T", "M", "A", "X">>
PRCP == <<"P", "R", "C", "P">>

----------------------------------------------------------------------------
(* Observation ingestion: loadStationData *)

NoErr == "nil"
ErrNetwork == "Netzwerkfehler"
ErrStatus == "nicht gefunden"

StatusOK == 200

\* Mutant of RowObservation: the value -9999 is taken as a measurement.
RowObservationKeepSentinel(row, nfields) ==
    IF Len(row) # nfields \/ Len(row) < 4 THEN <<>>
    ELSE IF row[3] # <<"T", "M", "I", "N">> /\ row[3] # <<"T", "M", "A", "X">> THEN <<>>
    ELSE LET date == ParseDate(row[2])
             val == Atoi(row[4])
         IN  IF ~date.ok \/ ~val.ok THEN <<>>
             ELSE << [Date |-> [year |-> date.year, month |-> date.month, day |-> date.day],
                      ElementType |-> row[3],
                      Value |-> val.val] >>

\* One record of the per-station feed after the header, as csv.Reader.Read
\* and the loop body treat it: the reader reports a record whose number of
\* fields differs from the header's as an error, and the loop skips it.
RowObservation(row, nfields) ==
    IF Len(row) # nfields \/ Len(row) < 4 THEN <<>>
    ELSE IF row[3] # TMIN /\ row[3] # TMAX THEN <<>>
    ELSE LET date == ParseDate(row[2])
             val == Atoi(row[4])
         IN  IF ~date.ok THEN <<>>
             ELSE IF ~val.ok \/ val.val = -9999 THEN <<>>
             ELSE << [Date |-> [year |-> date.year, month |-> date.month, day |-> date.day],
                      ElementType |-> row[3],
                      Value |-> val.val] >>

RECURSIVE ReadRows(_, _)
ReadRows(rows, nfields) ==
    IF rows = <<>> THEN <<>>
    ELSE RowObservation(Head(rows), nfields) \o ReadRows(Tail(rows), nfields)

\* loadStationData: the observations and the error it returns. resp.rows are
\* the records the body yields; resp.broken says that every read after them
\* fails with an error that is not io.EOF. The loop (lines 760-767) leaves
\* only at io.EOF and takes any other error as a row to skip, so on a broken
\* body it reads again for ever: hangs says that the call does not return,
\* and data are the observations gathered by then.
loadStationData(resp) ==
    LET dataList == IF resp.rows = <<>> THEN <<>>
                    ELSE ReadRows(Tail(resp.rows), Len(Head(resp.rows)))
    IN  IF resp.kind = "neterr" THEN [data |-> <<>>, err |-> ErrNetwork, hangs |-> FALSE]
        ELSE IF resp.status # StatusOK THEN [data |-> <<>>, err |-> ErrStatus, hangs |-> FALSE]
        ELSE [data |-> dataList, err |-> NoErr, hangs |-> resp.broken]

\* The upstream's answers to a per-station fetch.
F(a, b, c, d) == <<a, b, c, d>>
StnField == <<"S", "T", "N">>
Header == F(<<"I", "D">>, <<"D", "A", "T", "E">>, <<"E", "L">>, <<"V", "A", "L">>)
Date1 == <<"2", "0", "2", "0", "0", "1", "0", "1">>
Date2 == <<"2", "0", "2", "1", "1", "2", "3", "1">>
BadDate == <<"2", "0", "2", "0", "1", "3", "0", "1">>

BodyA == << Header,
            F(StnField, Date1, TMIN, <<"1", "0", "0">>),
            F(StnField, Date1, TMIN, <<"-", "9", "9", "9", "9">>),
            F(StnField, Date1, PRCP, <<"5">>),
            F(StnField, BadDate, TMAX, <<"7">>) >>
BodyB == << Header,
            F(StnField, Date2, TMAX, <<"-", "2", "5">>),
            <<StnField, Date2, TMAX>>,
            F(StnField, Date2, TMIN, <<"x">>) >>

\* The answers of the upstream to a fetch that returns.
Responses ==
    { [kind |-> "neterr", status |-> 0, rows |-> <<>>, broken |-> FALSE],
      [kind |-> "http", status |-> 404, rows |-> <<>>, broken |-> FALSE],
      [kind |-> "http", status |-> StatusOK, rows |-> BodyA, broken |-> FALSE],
      [kind |-> "http", status |-> StatusOK, rows |-> BodyB, broken |-> FALSE] }

NoFetch == [kind |-> "none", status |-> 0, rows |-> <<>>, broken |-> FALSE]

\* An upstream that holds its own observations for each station: the answers
\* to a fetch for identifier i are a non-success status, or one of two bodies
\* of that station (TMIN rows for STN001, TMAX rows for STN002).
BodiesOf(i) ==
    IF i = "STN001"
    THEN { << Header, F(StnField, Date1, TMIN, <<"1", "0", "0">>) >>,
           << Header, F(StnField, Date1, TMIN, <<"1", "0", "0">>),
              F(StnField, Date2, TMIN, <<"-", "2", "5">>) >> }
    ELSE { << Header, F(StnField, Date2, TMAX, <<"-", "2", "5">>) >>,
           << Header, F(StnField, Date2, TMAX, <<"-", "2", "5">>),
              F(StnField, Date1, TMAX, <<"1", "0", "0">>) >> }

UpstreamAnswers ==
    [i \in Ids |->
        { [kind |-> "http", status |-> 404, rows |-> <<>>, broken |-> FALSE] }
        \cup { [kind |-> "http", status |-> StatusOK, rows |-> body, broken |-> FALSE] :
                 body \in BodiesOf(i) }]

Upstream(i) == UpstreamAnswers[i]

----------------------------------------------------------------------------
(* Fixed-width text: the station directory and the inventory *)

Spaces(n) == [i \in 1..n |-> " "]

\* A field written left-aligned in a column of width n.
Pad(s, n) == s \o Spaces(n - Len(s))

RECURSIVE TrimLeft(_)
TrimLeft(s) == IF s # <<>> /\ Head(s) = " " THEN TrimLeft(Tail(s)) ELSE s

RECURSIVE TrimRight(_)
TrimRight(s) ==
    IF s # <<>> /\ s[Len(s)] = " " THEN TrimRight(SubSeq(s, 1, Len(s) - 1)) ELSE s

\* strings.TrimSpace
TrimSpace(s) == TrimRight(TrimLeft(s))

\* line[lo:hi] of Go: the characters lo+1..hi
Slice(line, lo, hi) == SubSeq(line, lo + 1, hi)

\* strconv.ParseFloat on decimal text: an optional sign, digits, an optional
\* point and digits, at least one digit. The value is kept in ten-thousandths
\* (the feeds carry four decimals); any other text gives an error and 0.
ParseFloat(s) ==
    LET signed == Len(s) > 0 /\ s[1] \in {"+", "-"}
        body == IF signed THEN Tail(s) ELSE s
        dots == {i \in 1..Len(body) : body[i] = "."}
        dot == IF dots = {} THEN Len(body) + 1 ELSE CHOOSE i \in dots : TRUE
        ip == SubSeq(body, 1, dot - 1)
        fp == SubSeq(body, dot + 1, Len(body))
        good == /\ Cardinality(dots) <= 1
                /\ AllDigits(ip) /\ AllDigits(fp)
                /\ Len(ip) + Len(fp) >= 1
                /\ Len(fp) <= 4
        mag == DigitsVal(ip) * 10000 + DigitsVal(fp \o [i \in 1..(4 - Len(fp)) |-> "0"])
    IN  IF ~good THEN [ok |-> FALSE, val |-> 0]
        ELSE [ok |-> TRUE, val |-> IF signed /\ s[1] = "-" THEN 0 - mag ELSE mag]

\* A *float64: nil, or a pointer to a value.
NilF == [null |-> TRUE, val |-> 0]
PtrF(x) == [null |-> FALSE, val |-> x]

NoMap == <<>>

MapPut(m, k, v) == [x \in (DOMAIN m) \cup {k} |-> IF x = k THEN v ELSE m[x]]

\* An upstream text feed as http.Get and bufio.Scanner deliver it: the
\* connection may fail, the status may be a failure, and the body may stop
\* being readable after `readable` of its lines (Scan then returns false).
LinesRead(feed) == SubSeq(feed.lines, 1, feed.readable)

FeedErr(feed) ==
    IF feed.kind = "neterr" THEN ErrNetwork
    ELSE IF feed.status # StatusOK THEN ErrStatus
    ELSE NoErr

\* Lines 452-475: one line of the inventory merged into the index.
\* Mutant of InventoryLine: a later line of a station replaces its entry.
InventoryLineLastWins(m, line) ==
    IF Len(line) < 45 THEN m
    ELSE LET element == TrimSpace(Slice(line, 31, 35))
         IN  IF element # TMAX /\ element # TMIN THEN m
             ELSE MapPut(m, TrimSpace(Slice(line, 0, 11)),
                         [FirstYear |-> Atoi(TrimSpace(Slice(line, 36, 40))).val,
                          LastYear |-> Atoi(TrimSpace(Slice(line, 41, 45))).val])

InventoryLine(m, line) ==
    IF Len(line) < 45 THEN m
    ELSE LET element == TrimSpace(Slice(line, 31, 35))
         IN  IF element # TMAX /\ element # TMIN THEN m
             ELSE LET sid == TrimSpace(Slice(line, 0, 11))
                      firstYear == Atoi(TrimSpace(Slice(line, 36, 40))).val
                      lastYear == Atoi(TrimSpace(Slice(line, 41, 45))).val
                  IN  IF sid \in DOMAIN m
                      THEN MapPut(m, sid,
                                  [FirstYear |-> IF firstYear < m[sid].FirstYear
                                                 THEN firstYear ELSE m[sid].FirstYear,
                                   LastYear |-> IF lastYear > m[sid].LastYear
                                                THEN lastYear ELSE m[sid].LastYear])
                      ELSE MapPut(m, sid, [FirstYear |-> firstYear, LastYear |-> lastYear])

RECURSIVE ScanInventory(_, _)
ScanInventory(m, lines) ==
    IF lines = <<>> THEN m
    ELSE ScanInventory(InventoryLine(m, Head(lines)), Tail(lines))

\* loadInventory: the error it returns and the index it leaves.
loadInventory(feed, m) ==
    IF FeedErr(feed) # NoErr THEN [err |-> FeedErr(feed), inventoryMap |-> m]
    ELSE [err |-> NoErr, inventoryMap |-> ScanInventory(m, LinesRead(feed))]

\* Mutant of StationLine: a line whose latitude or longitude is no number is skipped.
StationLineSkipMalformed(list, line) ==
    IF Len(line) < 71 THEN list
    ELSE IF ~ParseFloat(TrimSpace(Slice(line, 12, 20))).ok
            \/ ~ParseFloat(TrimSpace(Slice(line, 21, 30))).ok THEN list
    ELSE Append(list, [ID |-> TrimSpace(Slice(line, 0, 11)),
                       Name |-> TrimSpace(Slice(line, 38, 71)),
                       Latitude |-> PtrF(ParseFloat(TrimSpace(Slice(line, 12, 20))).val),
                       Longitude |-> PtrF(ParseFloat(TrimSpace(Slice(line, 21, 30))).val),
                       Distance |-> 0])

\* Mutant of StationLine: a latitude or longitude that is no number is left absent.
StationLineAbsent(list, line) ==
    IF Len(line) < 71 THEN list
    ELSE LET lat == ParseFloat(TrimSpace(Slice(line, 12, 20)))
             long == ParseFloat(TrimSpace(Slice(line, 21, 30)))
         IN  Append(list, [ID |-> TrimSpace(Slice(line, 0, 11)),
                           Name |-> TrimSpace(Slice(line, 38, 71)),
                           Latitude |-> IF lat.ok THEN PtrF(lat.val) ELSE NilF,
                           Longitude |-> IF long.ok THEN PtrF(long.val) ELSE NilF,
                           Distance |-> 0])

\* Lines 496-517: one line of the station directory appended to the list.
StationLine(list, line) ==
    IF Len(line) < 71 THEN list
    ELSE LET sid == TrimSpace(Slice(line, 0, 11))
             latStr == TrimSpace(Slice(line, 12, 20))
             longStr == TrimSpace(Slice(line, 21, 30))
             name == TrimSpace(Slice(line, 38, 71))
             lat == ParseFloat(latStr).val
             long == ParseFloat(longStr).val
         IN  Append(list, [ID |-> sid, Name |-> name,
                           Latitude |-> PtrF(lat), Longitude |-> PtrF(long),
                           Distance |-> 0])

RECURSIVE ScanStations(_, _)
ScanStations(list, lines) ==
    IF lines = <<>> THEN list
    ELSE ScanStations(StationLine(list, Head(lines)), Tail(lines))

\* initStations: the error it returns and the station list it leaves.
initStations(feed, list) ==
    IF FeedErr(feed) # NoErr THEN [err |-> FeedErr(feed), allStations |-> list]
    ELSE [err |-> NoErr, allStations |-> ScanStations(list, LinesRead(feed))]

----------------------------------------------------------------------------
(* Aggregation: calculateAnnualAvg, calculateSeasonalAvg *)

\* Lines 808-815 and 866-873: the sums and counts of a group of observations.
RECURSIVE Aggr(_)
Aggr(list) ==
    IF list = <<>> THEN [sumMin |-> 0, countMin |-> 0, sumMax |-> 0, countMax |-> 0]
    ELSE LET d == Head(list)
             rest == Aggr(Tail(list))
         IN  IF d.ElementType = TMIN
             THEN [rest EXCEPT !.sumMin = @ + d.Value, !.countMin = @ + 1]
             ELSE IF d.ElementType = TMAX
             THEN [rest EXCEPT !.sumMax = @ + d.Value, !.countMax = @ + 1]
             ELSE rest

\* The sums s > 0 for which the float64 product ((s / 4) / 10) * 100 falls just
\* below its exact value n + 0.5 (for 1 <= count <= 6 and |sum| <= 1300 no
\* other product differs from the exact value by enough to change the
\* rounding; the same holds for -s).
ShortOfHalf ==
    {23, 41, 51, 87, 97, 169, 179, 189, 199, 323, 333, 343, 353, 363, 373, 383, 393,
     403, 641, 651, 661, 671, 681, 691, 701, 711, 721, 731, 741, 751, 761, 771, 781,
     791, 801, 811, 1287, 1297}

Abs(x) == IF x < 0 THEN 0 - x ELSE x

\* Lines 818-819: avg := (float64(sum) / float64(count)) / 10, then
\* math.Round(avg*100) / 100, in hundredths of a degree. math.Round rounds the
\* float64 product to the nearest integer, halves away from zero.
RoundAvg(sum, count) ==
    LET short == count = 4 /\ Abs(sum) \in ShortOfHalf
        n == IF short THEN (Abs(sum) * 10) \div count
             ELSE (2 * Abs(sum) * 10 + count) \div (2 * count)
    IN  IF sum < 0 THEN 0 - n ELSE n

\* Lines 817-831: the two means of a group; a mean is set only if its count is > 0.
Means(a) ==
    [TMin |-> IF a.countMin > 0 THEN PtrF(RoundAvg(a.sumMin, a.countMin)) ELSE NilF,
     TMax |-> IF a.countMax > 0 THEN PtrF(RoundAvg(a.sumMax, a.countMax)) ELSE NilF]

\* slices.SortFunc on summaries of which no two compare as equal: the
\* ascending sequence; before holds the pairs <<a, b>> for which the comparison
\* function returns a negative number.
RECURSIVE Ascending(_, _)
Ascending(S, before) ==
    IF S = {} THEN <<>>
    ELSE LET m == CHOOSE x \in S : \A y \in S \ {x} : <<x, y>> \in before
         IN  <<m>> \o Ascending(S \ {m}, before)

\* Mutant of calculateAnnualAvg: a year without a TMIN or TMAX value gets the mean 0.
calculateAnnualAvgZero(rawData) ==
    LET years == {rawData[i].Date.year : i \in 1..Len(rawData)}
        zero(p) == IF p.null THEN PtrF(0) ELSE p
        summary(y) ==
            LET m == Means(Aggr(SelectSeq(rawData, LAMBDA d : d.Date.year = y)))
            IN  [Year |-> y, TMin |-> zero(m.TMin), TMax |-> zero(m.TMax)]
        result == {summary(y) : y \in years}
    IN  Ascending(result, {p \in result \X result : p[1].Year - p[2].Year < 0})

\* calculateAnnualAvg: one entry of stats per year of an observation, one
\* summary per entry (in the order of the map iteration), sorted by year.
calculateAnnualAvg(rawData) ==
    LET years == {rawData[i].Date.year : i \in 1..Len(rawData)}
        summary(y) ==
            LET m == Means(Aggr(SelectSeq(rawData, LAMBDA d : d.Date.year = y)))
            IN  [Year |-> y, TMin |-> m.TMin, TMax |-> m.TMax]
        result == {summary(y) : y \in years}
    IN  Ascending(result, {p \in result \X result : p[1].Year - p[2].Year < 0})

Winter == <<"W", "i", "n", "t", "e", "r">>
Spring == <<"S", "p", "r", "i", "n", "g">>
Summer == <<"S", "u", "m", "m", "e", "r">>
Autumn == <<"A", "u", "t", "u", "m", "n">>

\* Mutant of SeasonOf: December belongs to the winter of the next year.
SeasonOfDecemberShifted(month, year) ==
    CASE month \in {3, 4, 5} -> [season |-> Spring, year |-> year]
      [] month \in {6, 7, 8} -> [season |-> Summer, year |-> year]
      [] month \in {9, 10, 11} -> [season |-> Autumn, year |-> year]
      [] month = 12 -> [season |-> Winter, year |-> year + 1]
      [] OTHER -> [season |-> Winter, year |-> year]

\* Lines 849-863: the switch on the month; the year is left as it is.
SeasonOf(month, year) ==
    CASE month \in {3, 4, 5} -> [season |-> Spring, year |-> year]
      [] month \in {6, 7, 8} -> [season |-> Summer, year |-> year]
      [] month \in {9, 10, 11} -> [season |-> Autumn, year |-> year]
      [] month \in {1, 2, 12} -> [season |-> Winter, year |-> year]
      [] OTHER -> [season |-> <<>>, year |-> year]

DigitChar(n) == CHOOSE c \in Digits : DigitVal(c) = n

\* fmt.Sprintf("%d", n)
RECURSIVE Itoa(_)
Itoa(n) ==
    IF n < 0 THEN <<"-">> \o Itoa(0 - n)
    ELSE IF n < 10 THEN <<DigitChar(n)>>
    ELSE Itoa(n \div 10) \o <<DigitChar(n % 10)>>

\* Line 865: key := fmt.Sprintf("%d-%s", year, season)
GroupKey(d) ==
    LET g == SeasonOf(d.Date.month, d.Date.year)
    IN  Itoa(g.year) \o <<"-">> \o g.season

\* strings.Split(key, "-"): the parts between the dashes.
RECURSIVE Split(_)
Split(text) ==
    IF \A i \in 1..Len(text) : text[i] # "-" THEN <<text>>
    ELSE LET k == CHOOSE i \in 1..Len(text) :
                      text[i] = "-" /\ \A j \in 1..(i - 1) : text[j] # "-"
         IN  <<SubSeq(text, 1, k - 1)>> \o Split(SubSeq(text, k + 1, Len(text)))

\* Mutant of SeasonOrder: the seasons are ranked by their names.
SeasonOrderByName(season) ==
    CASE season = <<"A", "u", "t", "u", "m", "n">> -> 1
      [] season = <<"S", "p", "r", "i", "n", "g">> -> 2
      [] season = <<"S", "u", "m", "m", "e", "r">> -> 3
      [] season = <<"W", "i", "n", "t", "e", "r">> -> 4
      [] OTHER -> 0

\* Line 898: the rank of a season; a text that is no season has rank 0.
SeasonOrder(season) ==
    CASE season = Winter -> 1
      [] season = Spring -> 2
      [] season = Summer -> 3
      [] season = Autumn -> 4
      [] OTHER -> 0

\* Mutant of calculateSeasonalAvg: without observations the result holds one
\* summary without means.
calculateSeasonalAvgPlaceholder(rawData) ==
    LET keys == {GroupKey(rawData[i]) : i \in 1..Len(rawData)}
        summary(key) ==
            LET parts == Split(key)
                m == Means(Aggr(SelectSeq(rawData, LAMBDA d : GroupKey(d) = key)))
            IN  [Year |-> Atoi(parts[1]).val, Season |-> parts[2],
                 TMin |-> m.TMin, TMax |-> m.TMax]
        less(a, b) == IF a.Year # b.Year THEN a.Year - b.Year < 0
                      ELSE SeasonOrder(a.Season) - SeasonOrder(b.Season) < 0
        result == {summary(key) : key \in keys}
    IN  IF rawData = <<>>
        THEN << [Year |-> 0, Season |-> <<>>, TMin |-> NilF, TMax |-> NilF] >>
        ELSE Ascending(result, {p \in result \X result : less(p[1], p[2])})

\* Mutant of calculateSeasonalAvg: a group that lacks one of the two means
\* gets no summary.
calculateSeasonalAvgSkipPartial(rawData) ==
    LET keys == {GroupKey(rawData[i]) : i \in 1..Len(rawData)}
        summary(key) ==
            LET parts == Split(key)
                m == Means(Aggr(SelectSeq(rawData, LAMBDA d : GroupKey(d) = key)))
            IN  [Year |-> Atoi(parts[1]).val, Season |-> parts[2],
                 TMin |-> m.TMin, TMax |-> m.TMax]
        less(a, b) == IF a.Year # b.Year THEN a.Year - b.Year < 0
                      ELSE SeasonOrder(a.Season) - SeasonOrder(b.Season) < 0
        result == {r \in {summary(key) : key \in keys} : ~r.TMin.null /\ ~r.TMax.null}
    IN  Ascending(result, {p \in result \X result : less(p[1], p[2])})

\* calculateSeasonalAvg: one entry of stats per key, one summary per entry
\* with the year and the season read back from the key, sorted by year and
\* then by the rank of the season.
calculateSeasonalAvg(rawData) ==
    LET keys == {GroupKey(rawData[i]) : i \in 1..Len(rawData)}
        summary(key) ==
            LET parts == Split(key)
                m == Means(Aggr(SelectSeq(rawData, LAMBDA d : GroupKey(d) = key)))
            IN  [Year |-> Atoi(parts[1]).val, Season |-> parts[2],
                 TMin |-> m.TMin, TMax |-> m.TMax]
        less(a, b) == IF a.Year # b.Year THEN a.Year - b.Year < 0
                      ELSE SeasonOrder(a.Season) - SeasonOrder(b.Season) < 0
        result == {summary(key) : key \in keys}
    IN  Ascending(result, {p \in result \X result : less(p[1], p[2])})

NoDetail == [asked |-> FALSE, rawData |-> <<>>, Annual |-> <<>>, Seasonal |-> <<>>]

\* The Data of a station-detail answer: nil, or a StationDetailResponse.
NoData == [null |-> TRUE, Annual |-> <<>>, Seasonal |-> <<>>]
DetailData(annual, seasonal) == [null |-> FALSE, Annual |-> annual, Seasonal |-> seasonal]

----------------------------------------------------------------------------
(* Geospatial search: findStations, countStationsInRadius, stationsHandler *)

\* Lines 538-545, the haversine distance with earth radius 6371 km, in metres
\* rounded up (so that distance > radius in km is decided exactly), for the
\* coordinates of the model: (48, 8), (48.5, 8) and (0, 0), from (48, 8) and
\* from (0, 0) to (0, 8) and to (48, 0), and from (48, 8) to (48 + 0.04 k, 8)
\* for k in 1..12, in ten-thousandths of a degree. The values are those the
\* formula gives in float64.
MeridianStep == 400

Meridian ==
    <<4448, 8896, 13344, 17792, 22239, 26687, 31135, 35583, 40031, 44478, 48926, 53374>>

Haversine(latUsr, longUsr, lat, long) ==
    LET from == <<latUsr, longUsr>>
        to == <<lat, long>>
        P0 == <<480000, 80000>>
        P1 == <<485000, 80000>>
        Z == <<0, 0>>
    IN  CASE from = to -> 0
          [] {from, to} = {P0, P1} -> 55598
          [] {from, to} = {P0, Z} -> 5392966
          [] {from, to} = {P1, Z} -> 5447603
          [] {from, to} = {P0, <<0, 80000>>} -> 5337357
          [] {from, to} = {P0, <<480000, 0>>} -> 594965
          [] {from, to} = {Z, <<0, 80000>>} -> 889560
          [] {from, to} = {Z, <<480000, 0>>} -> 5337357
          [] from = P0 /\ long = 80000
             /\ lat \in {480000 + MeridianStep * k : k \in 1..Len(Meridian)}
               -> Meridian[(lat - 480000) \div MeridianStep]

HasCoordinates(s) == ~s.Latitude.null /\ ~s.Longitude.null

DistanceTo(latUsr, longUsr, s) == Haversine(latUsr, longUsr, s.Latitude.val, s.Longitude.val)

\* Mutant of OutOfRadius: a station at exactly the radius is dropped.
OutOfRadiusInclusive(distance, radius) == distance >= radius * 1000

\* Line 548: distance > float64(radius) drops the station.
OutOfRadius(distance, radius) == distance > radius * 1000

\* Lines 553-554: the coverage test against the inventory.
NotCovered(sid, startYear, endYear) ==
    \/ sid \notin DOMAIN inventoryMap
    \/ inventoryMap[sid].FirstYear > startYear
    \/ inventoryMap[sid].LastYear < endYear

\* Lines 529-567: the loop body for one station; the matched copy carries the distance.
MatchStation(s, latUsr, longUsr, radius, startYear, endYear) ==
    IF ~HasCoordinates(s) THEN <<>>
    ELSE IF OutOfRadius(DistanceTo(latUsr, longUsr, s), radius) THEN <<>>
    ELSE IF NotCovered(s.ID, startYear, endYear) THEN <<>>
    ELSE << [ID |-> s.ID, Name |-> s.Name, Latitude |-> s.Latitude,
             Longitude |-> s.Longitude, Distance |-> DistanceTo(latUsr, longUsr, s)] >>

RECURSIVE MatchStations(_, _, _, _, _, _)
MatchStations(list, latUsr, longUsr, radius, startYear, endYear) ==
    IF list = <<>> THEN <<>>
    ELSE MatchStation(Head(list), latUsr, longUsr, radius, startYear, endYear)
         \o MatchStations(Tail(list), latUsr, longUsr, radius, startYear, endYear)

\* slices.SortFunc sorts a slice of at most maxInsertion elements by insertion.
maxInsertion == 12

\* Insertion of x into a sorted list: x moves left only past elements whose
\* distance is greater (the comparison returns a negative number), so it stays
\* behind the elements of equal distance.
RECURSIVE InsertSorted(_, _)
InsertSorted(sorted, x) ==
    IF sorted = <<>> THEN <<x>>
    ELSE IF x.Distance < sorted[Len(sorted)].Distance
         THEN Append(InsertSorted(SubSeq(sorted, 1, Len(sorted) - 1), x), sorted[Len(sorted)])
         ELSE Append(sorted, x)

RECURSIVE InsertionSort(_)
InsertionSort(list) ==
    IF list = <<>> THEN <<>>
    ELSE InsertSorted(InsertionSort(SubSeq(list, 1, Len(list) - 1)), list[Len(list)])

\* The lists got from those of S by exchanging neighbours of equal distance,
\* any number of times.
RECURSIVE TieOrders(_)
TieOrders(S) ==
    LET swap(t, i) == [t EXCEPT ![i] = t[i + 1], ![i + 1] = t[i]]
        more == UNION { {swap(t, i) : i \in {j \in 1..(Len(t) - 1) : t[j].Distance = t[j + 1].Distance}}
                        : t \in S }
    IN  IF more \subseteq S THEN S ELSE TieOrders(S \cup more)

\* slices.SortFunc by Distance. A slice of at most maxInsertion elements is
\* sorted by insertion, which keeps elements of equal distance in their order;
\* a longer slice is sorted by pivot partitioning, which the library does not
\* guarantee to be stable: the result is some ascending ordering.
SortFunc(list) ==
    IF Len(list) <= maxInsertion
    THEN {InsertionSort(list)}
    ELSE TieOrders({InsertionSort(list)})

\* Lines 580-587: copy until i+1 == limit.
Truncate(list, limit) ==
    IF limit >= 1 /\ limit <= Len(list) THEN SubSeq(list, 1, limit) ELSE list

\* findStations: the lists it may return.
findStations(latUsr, longUsr, radius, limit, startYear, endYear) ==
    {Truncate(t, limit) :
        t \in SortFunc(MatchStations(allStations, latUsr, longUsr, radius, startYear, endYear))}

\* Mutant of CountInRadius: only stations with a coverage entry are counted.
CountInRadiusCovered(list, latUsr, longUsr, radius) ==
    Len(SelectSeq(list, LAMBDA s : /\ HasCoordinates(s)
                                    /\ DistanceTo(latUsr, longUsr, s) <= radius * 1000
                                    /\ s.ID \in DOMAIN inventoryMap))

RECURSIVE CountInRadius(_, _, _, _)
CountInRadius(list, latUsr, longUsr, radius) ==
    IF list = <<>> THEN 0
    ELSE (IF HasCoordinates(Head(list))
             /\ DistanceTo(latUsr, longUsr, Head(list)) <= radius * 1000
          THEN 1 ELSE 0)
         + CountInRadius(Tail(list), latUsr, longUsr, radius)

countStationsInRadius(latUsr, longUsr, radius) ==
    CountInRadius(allStations, latUsr, longUsr, radius)

StatusBadRequest == 400

Msg(text, args) == [text |-> text, args |-> args]
NoMsg == Msg("", <<>>)

BadRequest(text) == [status |-> StatusBadRequest, data |-> <<>>, errorMsg |-> Msg(text, <<>>)]

\* Lines 723-738: the answer for parsed parameters, given the list findStations returned.
SearchAnswer(stationList, lat, long, radius, start, end) ==
    [status |-> StatusOK,
     data |-> stationList,
     errorMsg |->
        IF Len(stationList) = 0
        THEN IF countStationsInRadius(lat, long, radius) > 0
             THEN Msg("There are %d stations within the radius, but none have data for the selected time range",
                      <<countStationsInRadius(lat, long, radius), start, end>>)
             ELSE Msg("No stations found in this area. Try increasing the radius.", <<>>)
        ELSE NoMsg]

\* Mutant of ParseSearch: the end year is not checked for being a number.
ParseSearchEndUnchecked(req) ==
    LET lat == ParseFloat(req.lat)
        long == ParseFloat(req.long)
        radius == Atoi(req.radius)
        limit == Atoi(req.limit)
        start == Atoi(req.start)
        end == Atoi(req.end)
        invalid == "Please provide a valid number."
    IN  IF req.lat = <<>> THEN [ok |-> FALSE, resp |-> BadRequest("Please provide a latitude.")]
        ELSE IF req.long = <<>> THEN [ok |-> FALSE, resp |-> BadRequest("Please provide a longitude.")]
        ELSE IF req.radius = <<>> THEN [ok |-> FALSE, resp |-> BadRequest("Please provide a radius.")]
        ELSE IF req.limit = <<>> THEN [ok |-> FALSE, resp |-> BadRequest("Please provide a selection limit.")]
        ELSE IF req.start = <<>> THEN [ok |-> FALSE, resp |-> BadRequest("Please provide a start year.")]
        ELSE IF req.end = <<>> THEN [ok |-> FALSE, resp |-> BadRequest("Please provide an end year.")]
        ELSE IF ~lat.ok \/ ~long.ok \/ ~radius.ok \/ ~limit.ok \/ ~start.ok
             THEN [ok |-> FALSE, resp |-> BadRequest(invalid)]
        ELSE [ok |-> TRUE,
              args |-> [lat |-> lat.val, long |-> long.val, radius |-> radius.val,
                        limit |-> limit.val, start |-> start.val, end |-> end.val]]

\* Lines 644-721: the parameter checks of stationsHandler, in their order.
\* The answer is BadRequest, or "ok" with the parsed values.
ParseSearch(req) ==
    LET lat == ParseFloat(req.lat)
        long == ParseFloat(req.long)
        radius == Atoi(req.radius)
        limit == Atoi(req.limit)
        start == Atoi(req.start)
        end == Atoi(req.end)
        invalid == "Please provide a valid number."
    IN  IF req.lat = <<>> THEN [ok |-> FALSE, resp |-> BadRequest("Please provide a latitude.")]
        ELSE IF req.long = <<>> THEN [ok |-> FALSE, resp |-> BadRequest("Please provide a longitude.")]
        ELSE IF req.radius = <<>> THEN [ok |-> FALSE, resp |-> BadRequest("Please provide a radius.")]
        ELSE IF req.limit = <<>> THEN [ok |-> FALSE, resp |-> BadRequest("Please provide a selection limit.")]
        ELSE IF req.start = <<>> THEN [ok |-> FALSE, resp |-> BadRequest("Please provide a start year.")]
        ELSE IF req.end = <<>> THEN [ok |-> FALSE, resp |-> BadRequest("Please provide an end year.")]
        ELSE IF ~lat.ok \/ ~long.ok \/ ~radius.ok \/ ~limit.ok \/ ~start.ok \/ ~end.ok
             THEN [ok |-> FALSE, resp |-> BadRequest(invalid)]
        ELSE [ok |-> TRUE,
              args |-> [lat |-> lat.val, long |-> long.val, radius |-> radius.val,
                        limit |-> limit.val, start |-> start.val, end |-> end.val]]

NoQuery == [lat |-> 0, long |-> 0, radius |-> 0, limit |-> 0, start |-> 0, end |-> 0, asked |-> FALSE]
NoResp == [status |-> 0, data |-> <<>>, errorMsg |-> NoMsg]

SearchInit ==
    /\ query = NoQuery
    /\ found = <<>>
    /\ searchResp = NoResp
    /\ detail = NoDetail
    /\ stationResp = [status |-> 0, data |-> NoData, errorMsg |-> NoMsg]

----------------------------------------------------------------------------
(* The station data cache: getStationData *)

cacheTTL == 60

NoEntry == [exists |-> FALSE, data |-> <<>>, fetchedAt |-> 0]
NoRet == [returned |-> FALSE, id |-> "", data |-> <<>>, err |-> NoErr]
NoWriter == 0

\* The clock step of the model: half of the TTL.
TickLen == cacheTTL \div 2

\* Mutant of Fresh: an entry whose age equals the TTL still counts as fresh.
FreshInclusive(e, t) == e.exists /\ t - e.fetchedAt <= cacheTTL

\* Line 421: exists && time.Since(entry.fetchedAt) < cacheTTL
Fresh(e, t) == e.exists /\ t - e.fetchedAt < cacheTTL

Serving == listening /\ "/station" \in handlers

\* A request worker enters getStationData(i).
Call(w, i) ==
    /\ Serving
    /\ pc[w] = "idle"
    /\ calls < MaxCalls
    /\ calls' = calls + 1
    /\ pc' = [pc EXCEPT ![w] = "rlock"]
    /\ id' = [id EXCEPT ![w] = i]
    /\ ret' = [ret EXCEPT ![w] = NoRet]
    /\ nfetch' = [nfetch EXCEPT ![w] = 0]
    /\ fetched' = [fetched EXCEPT ![w] = NoFetch]
    /\ UNCHANGED <<entry, data, entries, mu, now, mainVars, searchVars>>

\* cache.mu.RLock(): blocks while a writer holds or waits for the lock.
RLock(w) ==
    /\ pc[w] = "rlock"
    /\ mu.writer = NoWriter
    /\ mu' = [mu EXCEPT !.readers = @ \cup {w}]
    /\ pc' = [pc EXCEPT ![w] = "lookup"]
    /\ UNCHANGED <<id, entry, data, ret, nfetch, fetched, entries, now, calls, mainVars, searchVars>>

\* Mutant of RUnlock: the read lock is released by a defer, at the return.
RUnlockDeferred(w) ==
    /\ pc[w] = "lookup"
    /\ entry' = [entry EXCEPT ![w] = entries[id[w]]]
    /\ pc' = [pc EXCEPT ![w] = "check"]
    /\ UNCHANGED <<id, data, ret, nfetch, fetched, entries, mu, now, calls, mainVars, searchVars>>

\* entry, exists := cache.entries[id]; cache.mu.RUnlock()
RUnlock(w) ==
    /\ pc[w] = "lookup"
    /\ entry' = [entry EXCEPT ![w] = entries[id[w]]]
    /\ mu' = [mu EXCEPT !.readers = @ \ {w}]
    /\ pc' = [pc EXCEPT ![w] = "check"]
    /\ UNCHANGED <<id, data, ret, nfetch, fetched, entries, now, calls, mainVars, searchVars>>

\* Mutant of Check: a stale entry is evicted when it is found.
CheckEvictStale(w) ==
    /\ pc[w] = "check"
    /\ IF Fresh(entry[w], now)
       THEN /\ ret' = [ret EXCEPT ![w] = [returned |-> TRUE, id |-> id[w], data |-> entry[w].data, err |-> NoErr]]
            /\ pc' = [pc EXCEPT ![w] = "idle"]
            /\ id' = [id EXCEPT ![w] = ""]
            /\ entry' = [entry EXCEPT ![w] = NoEntry]
            /\ UNCHANGED <<nfetch, entries>>
       ELSE /\ pc' = [pc EXCEPT ![w] = "fetching"]
            /\ nfetch' = [nfetch EXCEPT ![w] = @ + 1]
            /\ entries' = [entries EXCEPT ![id[w]] = NoEntry]
            /\ UNCHANGED <<ret, id, entry>>
    /\ UNCHANGED <<data, fetched, mu, now, calls, mainVars, searchVars>>

\* The freshness test: a hit returns the entry's data, a miss starts the fetch.
Check(w) ==
    /\ pc[w] = "check"
    /\ IF Fresh(entry[w], now)
       THEN /\ ret' = [ret EXCEPT ![w] = [returned |-> TRUE, id |-> id[w], data |-> entry[w].data, err |-> NoErr]]
            /\ pc' = [pc EXCEPT ![w] = "idle"]
            /\ id' = [id EXCEPT ![w] = ""]
            /\ entry' = [entry EXCEPT ![w] = NoEntry]
            /\ UNCHANGED nfetch
       ELSE /\ pc' = [pc EXCEPT ![w] = "fetching"]
            /\ nfetch' = [nfetch EXCEPT ![w] = @ + 1]
            /\ UNCHANGED <<ret, id, entry>>
    /\ UNCHANGED <<data, fetched, entries, mu, now, calls, mainVars, searchVars>>

\* Mutant of FetchReturn: a failed fetch is tried again.
FetchReturnRetry(w, resp) ==
    /\ pc[w] = "fetching"
    /\ LET r == loadStationData(resp)
       IN  IF r.err # NoErr
           THEN /\ IF nfetch[w] < 2
                   THEN /\ nfetch' = [nfetch EXCEPT ![w] = @ + 1]
                        /\ UNCHANGED <<ret, pc, id, entry>>
                   ELSE /\ ret' = [ret EXCEPT ![w] = [returned |-> TRUE, id |-> id[w], data |-> <<>>, err |-> r.err]]
                        /\ pc' = [pc EXCEPT ![w] = "idle"]
                        /\ id' = [id EXCEPT ![w] = ""]
                        /\ entry' = [entry EXCEPT ![w] = NoEntry]
                        /\ UNCHANGED nfetch
                /\ UNCHANGED data
           ELSE /\ data' = [data EXCEPT ![w] = r.data]
                /\ pc' = [pc EXCEPT ![w] = "lock"]
                /\ UNCHANGED <<ret, id, entry, nfetch>>
    /\ fetched' = [fetched EXCEPT ![w] = resp]
    /\ UNCHANGED <<entries, mu, now, calls, mainVars, searchVars>>

\* loadStationData returns: an error goes to the caller, data goes on to the store.
FetchReturn(w, resp) ==
    /\ pc[w] = "fetching"
    /\ LET r == loadStationData(resp)
       IN  IF r.err # NoErr
           THEN /\ ret' = [ret EXCEPT ![w] = [returned |-> TRUE, id |-> id[w], data |-> <<>>, err |-> r.err]]
                /\ pc' = [pc EXCEPT ![w] = "idle"]
                /\ id' = [id EXCEPT ![w] = ""]
                /\ entry' = [entry EXCEPT ![w] = NoEntry]
                /\ UNCHANGED data
           ELSE /\ data' = [data EXCEPT ![w] = r.data]
                /\ pc' = [pc EXCEPT ![w] = IF r.hangs THEN "reading" ELSE "lock"]
                /\ UNCHANGED <<ret, id, entry>>
    /\ fetched' = [fetched EXCEPT ![w] = resp]
    /\ UNCHANGED <<nfetch, entries, mu, now, calls, mainVars, searchVars>>

\* cache.mu.Lock(), first half: the writer excludes other writers and
\* announces itself, which blocks the readers that arrive from now on.
LockAnnounce(w) ==
    /\ pc[w] = "lock"
    /\ mu.writer = NoWriter
    /\ mu' = [mu EXCEPT !.writer = w]
    /\ pc' = [pc EXCEPT ![w] = "lockwait"]
    /\ UNCHANGED <<id, entry, data, ret, nfetch, fetched, entries, now, calls, mainVars, searchVars>>

\* Mutant of LockAcquire: the writer does not wait for the active readers.
LockAcquireNoWait(w) ==
    /\ pc[w] = "lockwait"
    /\ pc' = [pc EXCEPT ![w] = "store"]
    /\ UNCHANGED <<id, entry, data, ret, nfetch, fetched, entries, mu, now, calls, mainVars, searchVars>>

\* cache.mu.Lock(), second half: the writer waits for the active readers.
LockAcquire(w) ==
    /\ pc[w] = "lockwait"
    /\ mu.readers = {}
    /\ pc' = [pc EXCEPT ![w] = "store"]
    /\ UNCHANGED <<id, entry, data, ret, nfetch, fetched, entries, mu, now, calls, mainVars, searchVars>>

\* Mutant of Store: the entry is looked up again under the write lock, and a
\* fresh one that another worker stored meanwhile is returned instead.
StoreIfStillMissing(w) ==
    /\ pc[w] = "store"
    /\ IF Fresh(entries[id[w]], now)
       THEN /\ ret' = [ret EXCEPT ![w] = [returned |-> TRUE, id |-> id[w], data |-> entries[id[w]].data, err |-> NoErr]]
            /\ UNCHANGED entries
       ELSE /\ entries' = [entries EXCEPT ![id[w]] = [exists |-> TRUE, data |-> data[w], fetchedAt |-> now]]
            /\ ret' = [ret EXCEPT ![w] = [returned |-> TRUE, id |-> id[w], data |-> data[w], err |-> NoErr]]
    /\ mu' = [mu EXCEPT !.writer = NoWriter]
    /\ pc' = [pc EXCEPT ![w] = "idle"]
    /\ id' = [id EXCEPT ![w] = ""]
    /\ entry' = [entry EXCEPT ![w] = NoEntry]
    /\ data' = [data EXCEPT ![w] = <<>>]
    /\ UNCHANGED <<nfetch, fetched, now, calls, mainVars, searchVars>>

\* Mutant of Store: the entry is written under every identifier.
StoreUnderAnyId(w) ==
    /\ pc[w] = "store"
    /\ entries' = [i \in DOMAIN entries |-> [exists |-> TRUE, data |-> data[w], fetchedAt |-> now]]
    /\ mu' = [mu EXCEPT !.writer = NoWriter]
    /\ ret' = [ret EXCEPT ![w] = [returned |-> TRUE, id |-> id[w], data |-> data[w], err |-> NoErr]]
    /\ pc' = [pc EXCEPT ![w] = "idle"]
    /\ id' = [id EXCEPT ![w] = ""]
    /\ entry' = [entry EXCEPT ![w] = NoEntry]
    /\ data' = [data EXCEPT ![w] = <<>>]
    /\ UNCHANGED <<nfetch, fetched, now, calls, mainVars, searchVars>>

\* cache.entries[id] = cacheEntry{data, time.Now()}; cache.mu.Unlock(); return data, nil
Store(w) ==
    /\ pc[w] = "store"
    /\ entries' = [entries EXCEPT ![id[w]] = [exists |-> TRUE, data |-> data[w], fetchedAt |-> now]]
    /\ mu' = [mu EXCEPT !.writer = NoWriter]
    /\ ret' = [ret EXCEPT ![w] = [returned |-> TRUE, id |-> id[w], data |-> data[w], err |-> NoErr]]
    /\ pc' = [pc EXCEPT ![w] = "idle"]
    /\ id' = [id EXCEPT ![w] = ""]
    /\ entry' = [entry EXCEPT ![w] = NoEntry]
    /\ data' = [data EXCEPT ![w] = <<>>]
    /\ UNCHANGED <<nfetch, fetched, now, calls, mainVars, searchVars>>

\* Time passes.
Tick ==
    /\ now + TickLen <= MaxTicks * TickLen
    /\ now' = now + TickLen
    /\ UNCHANGED <<pc, id, entry, data, ret, nfetch, fetched, entries, mu, calls, mainVars, searchVars>>

getStationData(w) ==
    \/ \E i \in Ids : Call(w, i)
    \/ RLock(w)
    \/ RUnlock(w)
    \/ Check(w)
    \/ \E resp \in Responses : FetchReturn(w, resp)
    \/ LockAnnounce(w)
    \/ LockAcquire(w)
    \/ Store(w)

CacheInit ==
    /\ pc = [w \in Workers |-> "idle"]
    /\ id = [w \in Workers |-> ""]
    /\ entry = [w \in Workers |-> NoEntry]
    /\ data = [w \in Workers |-> <<>>]
    /\ ret = [w \in Workers |-> NoRet]
    /\ nfetch = [w \in Workers |-> 0]
    /\ fetched = [w \in Workers |-> NoFetch]
    /\ entries = [i \in Ids |-> NoEntry]
    /\ mu = [readers |-> {}, writer |-> NoWriter]
    /\ now = 0
    /\ calls = 0

----------------------------------------------------------------------------
(* The upstream feeds and the registries of the model *)

IdA == <<"S", "T", "A">>
IdB == <<"S", "T", "B">>
IdC == <<"S", "T", "C">>
IdN == <<"S", "T", "N">>
NameA == <<"A", "L", "P", "H", "A">>
NameB == <<"B", "E", "T", "A">>
NameC == <<"C", " ", "X">>

Lat48 == <<"4", "8", ".", "0", "0", "0", "0">>
Lat485 == <<"4", "8", ".", "5", "0", "0", "0">>
Long8 == <<"8", ".", "0", "0", "0", "0">>
NotANumber == <<"a", "b", "c">>

Y1890 == <<"1", "8", "9", "0">>
Y1900 == <<"1", "9", "0", "0">>
Y1940 == <<"1", "9", "4", "0">>
Y1950 == <<"1", "9", "5", "0">>
Y2020 == <<"2", "0", "2", "0">>

\* An inventory line: id[0:11], element[31:35], first year[36:40], last year[41:45].
InvText(sid, element, first, last) ==
    Pad(sid, 11) \o Spaces(20) \o Pad(element, 4) \o <<" ">> \o Pad(first, 4)
    \o <<" ">> \o Pad(last, 4)

\* A station line: id[0:11], latitude[12:20], longitude[21:30], name[38:71].
StText(sid, lat, long, name) ==
    Pad(sid, 11) \o <<" ">> \o Pad(lat, 8) \o <<" ">> \o Pad(long, 9) \o Spaces(8)
    \o Pad(name, 33)

InvLines ==
    << InvText(IdA, TMAX, Y1900, Y1950),
       InvText(IdB, TMAX, Y1950, Y2020),
       InvText(IdA, TMIN, Y1890, Y1940),
       InvText(IdB, PRCP, Y1890, Y2020),
       Pad(IdC, 40) >>

StLines ==
    << StText(IdA, Lat48, Long8, NameA),
       StText(IdB, Lat485, Long8, NameB),
       Pad(IdC, 70),
       StText(IdC, NotANumber, NotANumber, NameC) >>

Feeds(lines) ==
    { [kind |-> "neterr", status |-> 0, lines |-> lines, readable |-> 0],
      [kind |-> "http", status |-> 503, lines |-> lines, readable |-> 0] }
    \cup { [kind |-> "http", status |-> StatusOK, lines |-> lines, readable |-> n] :
             n \in {1, Len(lines)} }

SeqsUpTo(S, n) == UNION {[1..k -> S] : k \in 0..n}

InvFeeds == Feeds(InvLines)

\* Rows of a per-station feed under the four-column header: two good rows, a
\* row with the sentinel value, one of another element, one with month 13,
\* one with three columns, one whose value is no integer, and a good row that
\* has a fifth column.
RowPool ==
    { F(StnField, Date1, TMIN, <<"1", "0", "0">>),
      F(StnField, Date2, TMAX, <<"-", "2", "5">>),
      F(StnField, Date1, TMIN, <<"-", "9", "9", "9", "9">>),
      F(StnField, Date1, PRCP, <<"5">>),
      F(StnField, BadDate, TMAX, <<"7">>),
      <<StnField, Date2, TMAX>>,
      F(StnField, Date2, TMIN, <<"x">>),
      <<StnField, Date2, TMIN, <<"3", "0">>, <<"S">>>> }

Obs(year, month, day, element, value) ==
    [Date |-> [year |-> year, month |-> month, day |-> day],
     ElementType |-> element, Value |-> value]

\* Observations a station may have: TMIN values of January and of March
\* 2020, a TMAX value of June 2020, TMAX values of December and of January
\* 2021, a TMIN value of September 2019 and a TMAX value of September 2020.
ObsPool ==
    { Obs(2020, 1, 1, TMIN, 100), Obs(2020, 1, 3, TMIN, 103), Obs(2020, 3, 1, TMIN, 200),
      Obs(2020, 6, 1, TMAX, 250),
      Obs(2021, 12, 31, TMAX, -200), Obs(2021, 1, 1, TMAX, -100),
      Obs(2019, 9, 1, TMIN, 157), Obs(2020, 9, 1, TMAX, 180) }

RawInputs == SeqsUpTo(ObsPool, MaxObs)

\* The answers of the upstream to a fetch: no connection, a non-success
\* status, or the header and up to MaxRows rows, after which the body ends or
\* its reads fail.
IngestResponses ==
    { [kind |-> "neterr", status |-> 0, rows |-> <<>>, broken |-> FALSE],
      [kind |-> "http", status |-> 404, rows |-> <<>>, broken |-> FALSE] }
    \cup { [kind |-> "http", status |-> StatusOK, rows |-> <<Header>> \o rows, broken |-> b] :
             rows \in SeqsUpTo(RowPool, MaxRows), b \in BOOLEAN }

\* Inventory feeds read to their end: up to MaxLines lines, each one of the
\* lines of InvLines, in any order and with repetitions.
InvOrderFeeds ==
    { [kind |-> "http", status |-> StatusOK, lines |-> lines, readable |-> Len(lines)] :
        lines \in SeqsUpTo({InvLines[i] : i \in 1..Len(InvLines)}, MaxLines) }
StFeeds == Feeds(StLines)

\* Lines of a station directory: a good line of 71 characters, the same line
\* cut to 70 characters, a line whose latitude and longitude are no numbers,
\* one whose latitude is no number, and one whose longitude column is blank.
StPool ==
    { StText(IdA, Lat48, Long8, NameA),
      SubSeq(StText(IdA, Lat48, Long8, NameA), 1, 70),
      StText(IdC, NotANumber, NotANumber, NameC),
      StText(IdB, NotANumber, Long8, NameB),
      StText(IdN, Lat48, <<>>, NameA) }

\* Station directories read to their end: up to MaxLines lines of StPool, in
\* any order and with repetitions.
StOrderFeeds ==
    { [kind |-> "http", status |-> StatusOK, lines |-> lines, readable |-> Len(lines)] :
        lines \in SeqsUpTo(StPool, MaxLines) }

\* An inventory in which every station of StPool has the years 1900 to 2020.
FullInvLines ==
    << InvText(IdA, TMAX, Y1900, Y2020), InvText(IdB, TMAX, Y1900, Y2020),
       InvText(IdC, TMIN, Y1900, Y2020), InvText(IdN, TMIN, Y1900, Y2020) >>

FullyRead(feed) == feed.readable = Len(feed.lines)

St(sid, name, lat, long) ==
    [ID |-> sid, Name |-> name, Latitude |-> lat, Longitude |-> long, Distance |-> 0]

\* Stations a registry may hold: two at (48, 8), one at (48.5, 8), one
\* without latitude.
StationPool ==
    { St(IdA, NameA, PtrF(480000), PtrF(80000)),
      St(IdB, NameB, PtrF(485000), PtrF(80000)),
      St(IdC, NameC, PtrF(480000), PtrF(80000)),
      St(IdN, NameA, NilF, PtrF(80000)) }

\* A crowded area: thirteen covered stations on the meridian of the query
\* point, at 0.04 k degrees north of it for k = 5, 1, 2, 3, 4, 0, 5, 6, ..., 11
\* in registry order; the first and the seventh are co-located.
CrowdedTags == <<"0", "1", "2", "3", "4", "5", "6", "7", "8", "9", "D", "E", "F">>
CrowdedSteps == <<5, 1, 2, 3, 4, 0, 5, 6, 7, 8, 9, 10, 11>>
CrowdedId(i) == <<"S", "T", CrowdedTags[i]>>

CrowdedRegistry ==
    [i \in 1..Len(CrowdedTags) |->
        St(CrowdedId(i), NameA, PtrF(480000 + MeridianStep * CrowdedSteps[i]), PtrF(80000))]

Registries == SeqsUpTo(StationPool, MaxStations)

Cov(first, last) == [FirstYear |-> first, LastYear |-> last]

\* Coverage indexes: A has none, [1900,1950] or [1950,2020]; B has none or
\* [1900,2020]; C and N have [1900,2020].
Coverages ==
    { [sid \in dom |-> IF sid = IdA THEN a ELSE Cov(1900, 2020)] :
        a \in {Cov(1900, 1950), Cov(1950, 2020)},
        dom \in { {IdC, IdN} \cup x : x \in SUBSET {IdA, IdB} } }

CrowdedCoverage ==
    [sid \in {CrowdedId(i) : i \in 1..Len(CrowdedTags)} |-> Cov(1900, 2020)]

Queries ==
    [lat : {480000}, long : {80000}, radius : {0, 55, 56}, limit : {0, 1, 2, 5},
     start : {1900, 1950}, end : {1950, 2020}, asked : {TRUE}]

Txt0 == <<"0">>
Txt1 == <<"1">>
Txt56 == <<"5", "6">>
Txt5 == <<"5">>
Txt900 == <<"9", "0", "0">>

\* Search requests: "" is a missing parameter.
SearchRequests ==
    [lat : {Lat48}, long : {Long8}, radius : {Txt0, Txt56}, limit : {Txt1},
     start : {Y1900}, end : {Y1950, Y2020}]
    \cup [lat : {Lat48, NotANumber}, long : {<<>>, Long8}, radius : {Txt56}, limit : {Txt1},
          start : {Y1900}, end : {NotANumber}]

\* Searches around (0, 0) and around (48, 8), with radius 0 and 900 km, for
\* the years 1900 to 2020, and one around (0, 0) for the years from 1890.
OriginRequests ==
    [lat : {Txt0}, long : {Txt0}, radius : {Txt0, Txt900}, limit : {Txt5},
     start : {Y1900}, end : {Y2020}]
    \cup [lat : {Lat48}, long : {Long8}, radius : {Txt0, Txt900}, limit : {Txt5},
          start : {Y1900}, end : {Y2020}]
    \cup [lat : {Txt0}, long : {Txt0}, radius : {Txt900}, limit : {Txt5},
          start : {Y1890}, end : {Y2020}]

\* Search requests with one flaw: a valid request in which one parameter is
\* missing, or is a text that is no number.
ValidRequest ==
    [lat |-> Lat48, long |-> Long8, radius |-> Txt56, limit |-> Txt1,
     start |-> Y1900, end |-> Y1950]

FlawedRequests ==
    { [ValidRequest EXCEPT ![f] = t] :
        f \in {"lat", "long", "radius", "limit", "start", "end"},
        t \in {<<>>, NotANumber, <<"5", "x">>, <<"-">>} }

DetailRequests == SearchRequests \cup FlawedRequests

----------------------------------------------------------------------------
(* main: the registry loads, then the handlers and the listener *)

NotRun == "not run"

\* Mutant of AfterLoad: main goes on whatever the load returned.
AfterLoadIgnoreErr(err, next) == next

\* Lines 943-953: main returns when a load returned an error.
AfterLoad(err, next) == IF err # NoErr THEN "exited" ELSE next

\* One run of loadInventory on the inventory feed.
RunLoadInventory ==
    /\ invRuns < MaxRuns
    /\ LET r == loadInventory(invFeed, inventoryMap)
       IN  /\ inventoryMap' = r.inventoryMap
           /\ loadInvRet' = r.err
    /\ invRuns' = invRuns + 1
    /\ UNCHANGED <<invFeed, stFeed, allStations, initStRet, stRuns, handlers, listening>>

\* One run of initStations on the station directory.
RunInitStations ==
    /\ stRuns < MaxRuns
    /\ LET r == initStations(stFeed, allStations)
       IN  /\ allStations' = r.allStations
           /\ initStRet' = r.err
    /\ stRuns' = stRuns + 1
    /\ UNCHANGED <<invFeed, stFeed, inventoryMap, loadInvRet, invRuns, handlers, listening>>

MainLoadInventory ==
    /\ mainpc = "loadInventory"
    /\ RunLoadInventory
    /\ mainpc' = AfterLoad(loadInvRet', "initStations")
    /\ UNCHANGED <<searchVars, cacheVars>>

MainInitStations ==
    /\ mainpc = "initStations"
    /\ RunInitStations
    /\ mainpc' = AfterLoad(initStRet', "listen")
    /\ UNCHANGED <<searchVars, cacheVars>>

\* Lines 954-958: the handlers are registered, then ListenAndServe serves
\* (or returns at once when it cannot bind, and main ends).
MainListen(bound) ==
    /\ mainpc = "listen"
    /\ handlers' = {"/status", "/stations", "/station"}
    /\ listening' = bound
    /\ mainpc' = IF bound THEN "serving" ELSE "exited"
    /\ UNCHANGED <<invFeed, stFeed, inventoryMap, allStations, loadInvRet, initStRet,
                   invRuns, stRuns, searchVars, cacheVars>>

StatusInternalServerError == 500

\* Lines 911-920 of stationHandler: a request without an id is answered at
\* once; any other request enters getStationData(sid).
StationRequest(w, sid) ==
    /\ ~ret[w].returned
    /\ IF sid = ""
       THEN /\ Serving
            /\ pc[w] = "idle"
            /\ calls < MaxCalls
            /\ calls' = calls + 1
            /\ stationResp' = [status |-> StatusBadRequest, data |-> NoData,
                               errorMsg |-> Msg("Please provide a valid station ID.", <<>>)]
            /\ UNCHANGED <<query, found, searchResp, detail, mainVars,
                           pc, id, entry, data, ret, nfetch, fetched, entries, mu, now>>
       ELSE Call(w, sid)

\* Mutant of StationRespond: an error is answered together with the summaries
\* of the entry the cache still holds for the identifier.
StationRespondStale(w) ==
    /\ pc[w] = "idle"
    /\ ret[w].returned
    /\ IF ret[w].err # NoErr
       THEN /\ stationResp' = [status |-> StatusInternalServerError,
                               data |-> DetailData(calculateAnnualAvg(entries[ret[w].id].data),
                                                   calculateSeasonalAvg(entries[ret[w].id].data)),
                               errorMsg |-> Msg(ret[w].err, <<>>)]
            /\ UNCHANGED detail
       ELSE /\ detail' = [asked |-> TRUE, rawData |-> ret[w].data,
                          Annual |-> calculateAnnualAvg(ret[w].data),
                          Seasonal |-> calculateSeasonalAvg(ret[w].data)]
            /\ stationResp' = [status |-> StatusOK,
                               data |-> DetailData(calculateAnnualAvg(ret[w].data),
                                                   calculateSeasonalAvg(ret[w].data)),
                               errorMsg |-> NoMsg]
    /\ ret' = [ret EXCEPT ![w] = NoRet]
    /\ UNCHANGED <<query, found, searchResp, mainVars,
                   pc, id, entry, data, nfetch, fetched, entries, mu, now, calls>>

\* Lines 922-939 of stationHandler, after getStationData has returned: an
\* error is answered with status 500 and its text, observations with their
\* annual and seasonal summaries.
StationRespond(w) ==
    /\ pc[w] = "idle"
    /\ ret[w].returned
    /\ IF ret[w].err # NoErr
       THEN /\ stationResp' = [status |-> StatusInternalServerError, data |-> NoData,
                               errorMsg |-> Msg(ret[w].err, <<>>)]
            /\ UNCHANGED detail
       ELSE /\ detail' = [asked |-> TRUE, rawData |-> ret[w].data,
                          Annual |-> calculateAnnualAvg(ret[w].data),
                          Seasonal |-> calculateSeasonalAvg(ret[w].data)]
            /\ stationResp' = [status |-> StatusOK,
                               data |-> DetailData(calculateAnnualAvg(ret[w].data),
                                                   calculateSeasonalAvg(ret[w].data)),
                               errorMsg |-> NoMsg]
    /\ ret' = [ret EXCEPT ![w] = NoRet]
    /\ UNCHANGED <<query, found, searchResp, mainVars,
                   pc, id, entry, data, nfetch, fetched, entries, mu, now, calls>>

\* Mutant of StationsHandler: the distance is written to the records of the
\* station list, not to copies.
StationsHandlerInPlace(req) ==
    /\ listening /\ "/stations" \in handlers
    /\ calls < MaxCalls
    /\ calls' = calls + 1
    /\ \E p \in {ParseSearch(req)} :
           IF ~p.ok
           THEN /\ searchResp' = p.resp
                /\ UNCHANGED <<query, found, allStations>>
           ELSE \E list \in findStations(p.args.lat, p.args.long, p.args.radius,
                                         p.args.limit, p.args.start, p.args.end) :
                    /\ found' = list
                    /\ query' = [lat |-> p.args.lat, long |-> p.args.long, radius |-> p.args.radius,
                                limit |-> p.args.limit, start |-> p.args.start,
                                end |-> p.args.end, asked |-> TRUE]
                    /\ searchResp' = SearchAnswer(list, p.args.lat, p.args.long,
                                                  p.args.radius, p.args.start, p.args.end)
                    /\ allStations' =
                          [i \in 1..Len(allStations) |->
                              IF HasCoordinates(allStations[i])
                              THEN [allStations[i] EXCEPT
                                       !.Distance = DistanceTo(p.args.lat, p.args.long, allStations[i])]
                              ELSE allStations[i]]
    /\ UNCHANGED <<detail, stationResp, mainpc, invFeed, stFeed, inventoryMap,
                   loadInvRet, initStRet, invRuns, stRuns, handlers, listening,
                   pc, id, entry, data, ret, nfetch, fetched, entries, mu, now>>

\* stationsHandler answers a search request.
StationsHandler(req) ==
    /\ listening /\ "/stations" \in handlers
    /\ calls < MaxCalls
    /\ calls' = calls + 1
    /\ \E p \in {ParseSearch(req)} :
           IF ~p.ok
           THEN /\ searchResp' = p.resp
                /\ UNCHANGED <<query, found>>
           ELSE \E list \in findStations(p.args.lat, p.args.long, p.args.radius,
                                         p.args.limit, p.args.start, p.args.end) :
                    /\ found' = list
                    /\ query' = [lat |-> p.args.lat, long |-> p.args.long, radius |-> p.args.radius,
                                limit |-> p.args.limit, start |-> p.args.start,
                                end |-> p.args.end, asked |-> TRUE]
                    /\ searchResp' = SearchAnswer(list, p.args.lat, p.args.long,
                                                  p.args.radius, p.args.start, p.args.end)
    /\ UNCHANGED <<detail, stationResp, mainVars, pc, id, entry, data, ret, nfetch, fetched, entries, mu, now>>

\* A call of findStations on the registry (one per behaviour: a call leaves
\* the registry as it is).
FindCall(q) ==
    /\ ~query.asked
    /\ \E list \in findStations(q.lat, q.long, q.radius, q.limit, q.start, q.end) :
           found' = list
    /\ query' = q
    /\ UNCHANGED <<searchResp, detail, stationResp, mainVars, cacheVars>>

----------------------------------------------------------------------------
(* Specifications *)

MainStarted ==
    /\ mainpc = "serving"
    /\ loadInvRet = NoErr
    /\ initStRet = NoErr
    /\ invRuns = 1
    /\ stRuns = 1
    /\ handlers = {"/status", "/stations", "/station"}
    /\ listening = TRUE

\* The concurrent server: the registry is loaded, the request workers run
\* getStationData in any interleaving.
Init ==
    /\ MainStarted
    /\ invFeed = [kind |-> "http", status |-> StatusOK, lines |-> InvLines, readable |-> Len(InvLines)]
    /\ stFeed = [kind |-> "http", status |-> StatusOK, lines |-> StLines, readable |-> Len(StLines)]
    /\ inventoryMap = loadInventory(invFeed, NoMap).inventoryMap
    /\ allStations = initStations(stFeed, <<>>).allStations
    /\ SearchInit
    /\ CacheInit

Next ==
    \/ \E w \in Workers : getStationData(w)
    \/ Tick

Spec == Init /\ [][Next]_vars

\* The concurrent server on an upstream that answers a fetch with the
\* observations of the station asked for.
OwnDataNext ==
    \/ \E w \in Workers :
          \/ \E i \in Ids : Call(w, i)
          \/ RLock(w)
          \/ RUnlock(w)
          \/ Check(w)
          \/ pc[w] = "fetching" /\ \E resp \in Upstream(id[w]) : FetchReturn(w, resp)
          \/ LockAnnounce(w)
          \/ LockAcquire(w)
          \/ Store(w)
    \/ Tick

OwnDataSpec == Init /\ [][OwnDataNext]_vars

\* The steps of a call that is under way, the return of its fetch included.
Progress(w) ==
    \/ RLock(w)
    \/ RUnlock(w)
    \/ Check(w)
    \/ \E resp \in Responses : FetchReturn(w, resp)
    \/ LockAnnounce(w)
    \/ LockAcquire(w)
    \/ Store(w)

\* The concurrent server when every worker keeps running and every fetch returns.
LiveSpec == Init /\ [][Next]_vars /\ \A w \in Workers : WF_vars(Progress(w))

\* Lines 930-936 of stationHandler: the two aggregations of the observations
\* getStationData returned (one request per behaviour).
Aggregate(rawData) ==
    /\ ~detail.asked
    /\ detail' = [asked |-> TRUE, rawData |-> rawData,
                  Annual |-> calculateAnnualAvg(rawData),
                  Seasonal |-> calculateSeasonalAvg(rawData)]
    /\ UNCHANGED <<query, found, searchResp, stationResp, mainVars, cacheVars>>

AggNext == ~detail.asked /\ \E rawData \in RawInputs : Aggregate(rawData)

AggSpec == Init /\ [][AggNext]_vars

\* One worker calling getStationData, the upstream answering with any feed.
IngestNext ==
    \/ \E i \in Ids : Call(1, i)
    \/ RLock(1)
    \/ RUnlock(1)
    \/ Check(1)
    \/ \E resp \in IngestResponses : FetchReturn(1, resp)
    \/ LockAnnounce(1)
    \/ LockAcquire(1)
    \/ Store(1)

IngestSpec == Init /\ [][IngestNext]_vars

\* The answers of the upstream to a station-detail request: those of
\* Responses, and a body whose reads fail after its rows.
DetailResponses ==
    Responses \cup {[kind |-> "http", status |-> StatusOK, rows |-> BodyB, broken |-> TRUE]}

\* The two handlers, one request at a time: stationHandler around the steps of
\* getStationData, and stationsHandler.
DetailNext ==
    \/ \E sid \in Ids \cup {""} : StationRequest(1, sid)
    \/ RLock(1)
    \/ RUnlock(1)
    \/ Check(1)
    \/ \E resp \in DetailResponses : FetchReturn(1, resp)
    \/ LockAnnounce(1)
    \/ LockAcquire(1)
    \/ Store(1)
    \/ StationRespond(1)
    \/ \E req \in DetailRequests : pc[1] = "idle" /\ ~ret[1].returned /\ StationsHandler(req)
    \/ Tick

DetailSpec == Init /\ [][DetailNext]_vars

\* The process from its start, requests handled one at a time.
SeqInit ==
    /\ mainpc = "loadInventory"
    /\ invFeed \in InvFeeds
    /\ stFeed \in StFeeds
    /\ inventoryMap = NoMap
    /\ allStations = <<>>
    /\ loadInvRet = NotRun
    /\ initStRet = NotRun
    /\ invRuns = 0
    /\ stRuns = 0
    /\ handlers = {}
    /\ listening = FALSE
    /\ SearchInit
    /\ CacheInit

SeqNext ==
    \/ MainLoadInventory
    \/ MainInitStations
    \/ \E bound \in BOOLEAN : MainListen(bound)
    \/ \E req \in SearchRequests : StationsHandler(req)
    \/ getStationData(1)
    \/ Tick

SeqSpec == SeqInit /\ [][SeqNext]_vars

\* The process from its start on any station directory, then searches.
RegInit ==
    /\ mainpc = "loadInventory"
    /\ invFeed = [kind |-> "http", status |-> StatusOK, lines |-> FullInvLines,
                  readable |-> Len(FullInvLines)]
    /\ stFeed \in StOrderFeeds
    /\ inventoryMap = NoMap
    /\ allStations = <<>>
    /\ loadInvRet = NotRun
    /\ initStRet = NotRun
    /\ invRuns = 0
    /\ stRuns = 0
    /\ handlers = {}
    /\ listening = FALSE
    /\ SearchInit
    /\ CacheInit

RegNext ==
    \/ MainLoadInventory
    \/ MainInitStations
    \/ \E bound \in BOOLEAN : MainListen(bound)
    \/ \E req \in OriginRequests : StationsHandler(req)

RegSpec == RegInit /\ [][RegNext]_vars

\* The registry loads as operations that may be run again on the same feeds.
LoadInit ==
    /\ mainpc = "loadInventory"
    /\ invFeed \in InvFeeds
    /\ stFeed \in StFeeds
    /\ inventoryMap = NoMap
    /\ allStations = <<>>
    /\ loadInvRet = NotRun
    /\ initStRet = NotRun
    /\ invRuns = 0
    /\ stRuns = 0
    /\ handlers = {}
    /\ listening = FALSE
    /\ SearchInit
    /\ CacheInit

LoadNext ==
    \/ RunLoadInventory /\ UNCHANGED <<mainpc, searchVars, cacheVars>>
    \/ RunInitStations /\ UNCHANGED <<mainpc, searchVars, cacheVars>>

LoadSpec == LoadInit /\ [][LoadNext]_vars

\* loadInventory as a function of the lines of its feed.
InvInit ==
    /\ mainpc = "loadInventory"
    /\ invFeed \in InvOrderFeeds
    /\ stFeed = [kind |-> "http", status |-> StatusOK, lines |-> StLines, readable |-> Len(StLines)]
    /\ inventoryMap = NoMap
    /\ allStations = <<>>
    /\ loadInvRet = NotRun
    /\ initStRet = NotRun
    /\ invRuns = 0
    /\ stRuns = 0
    /\ handlers = {}
    /\ listening = FALSE
    /\ SearchInit
    /\ CacheInit

InvSpec == InvInit /\ [][LoadNext]_vars

\* findStations as a function of the registry and the query.
FindInit ==
    /\ MainStarted
    /\ invFeed = [kind |-> "http", status |-> StatusOK, lines |-> <<>>, readable |-> 0]
    /\ stFeed = [kind |-> "http", status |-> StatusOK, lines |-> <<>>, readable |-> 0]
    /\ \/ inventoryMap \in Coverages /\ allStations \in Registries
       \/ inventoryMap = CrowdedCoverage /\ allStations = CrowdedRegistry
    /\ SearchInit
    /\ CacheInit

FindNext == \E q \in Queries : FindCall(q)

FindSpec == FindInit /\ [][FindNext]_vars

\* stationsHandler as a function of the registry and the request.
SearchNext == \E req \in SearchRequests : StationsHandler(req)

SearchSpec == FindInit /\ [][SearchNext]_vars

----------------------------------------------------------------------------
(* Properties *)

\* C1: in a sequential run, the freshness test of getStationData decides the
\* fetch. When the stored entry of the identifier is younger than the TTL the
\* call returns the stored observations without a fetch and leaves the cache
\* as it is; when there is no entry, or its age is the TTL or more, the call
\* starts exactly one fetch, and the store that follows a successful fetch
\* overwrites the entry with the returned data and the current time. No call
\* fetches more than once.
C1_CacheHitMissRefetch ==
    [][\A w \in Workers :
        /\ (pc[w] = "check" /\ pc'[w] # "check") =>
              IF entries[id[w]].exists /\ now - entries[id[w]].fetchedAt < cacheTTL
              THEN /\ pc'[w] = "idle"
                   /\ nfetch'[w] = 0
                   /\ ret'[w].returned /\ ret'[w].err = NoErr
                   /\ ret'[w].data = entries[id[w]].data
                   /\ entries' = entries
              ELSE /\ pc'[w] = "fetching"
                   /\ nfetch'[w] = 1
        /\ (pc[w] = "store" /\ pc'[w] = "idle") =>
              /\ nfetch'[w] = 1
              /\ ret'[w].err = NoErr
              /\ entries'[id[w]] = [exists |-> TRUE, data |-> ret'[w].data, fetchedAt |-> now]
        /\ nfetch'[w] <= 1]_vars

\* A worker is about to overwrite, after one fetch, an entry whose age was exactly the TTL.
C1_Witness ==
    \E w \in Workers :
        /\ pc[w] = "store"
        /\ nfetch[w] = 1
        /\ entry[w].exists
        /\ entries[id[w]] = entry[w]
        /\ now - entry[w].fetchedAt = cacheTTL

\* C2: a worker inside the upstream fetch holds neither lock; a worker holds
\* the read lock exactly while it is at the map lookup, and the write lock
\* exactly from its Lock call to the end of the map store.
C2_NoLockAcrossFetch ==
    \A w \in Workers :
        /\ pc[w] = "fetching" => (w \notin mu.readers /\ mu.writer # w)
        /\ w \in mu.readers <=> pc[w] = "lookup"
        /\ mu.writer = w <=> pc[w] \in {"lockwait", "store"}

\* One worker is inside the fetch while another holds the write lock.
C2_Witness ==
    \E w, v \in Workers : pc[w] = "fetching" /\ pc[v] = "store" /\ mu.writer = v

\* C3: nothing after the fetch looks at the cache again. A worker whose fetch
\* returned data goes on to take the write lock, writes its own data with the
\* current time and returns that data, whatever another worker stored for the
\* same identifier meanwhile: two workers that both missed both write.
C3_BothMissesFetchAndStore ==
    [][\A w \in Workers :
        /\ pc[w] \in {"lock", "lockwait"} => pc'[w] \in {"lock", "lockwait", "store"}
        /\ pc[w] = "store" =>
              \/ pc'[w] = "store"
              \/ /\ pc'[w] = "idle"
                 /\ entries'[id[w]] = [exists |-> TRUE, data |-> data[w], fetchedAt |-> now]
                 /\ ret'[w] = [returned |-> TRUE, id |-> id[w], data |-> data[w], err |-> NoErr]]_vars

\* Two workers have both fetched for the same identifier, with different
\* results, and neither has stored: the identifier still has no entry.
C3_Witness ==
    \E w, v \in Workers :
        /\ w # v
        /\ id[w] = id[v]
        /\ pc[w] = "store" /\ pc[v] = "lock"
        /\ nfetch[w] = 1 /\ nfetch[v] = 1
        /\ data[w] # data[v]
        /\ ~entries[id[w]].exists

\* The position of a call in getStationData, in the order of its steps.
C4_Rank(p) ==
    CASE p = "rlock" -> 1 [] p = "lookup" -> 2 [] p = "check" -> 3
      [] p = "fetching" -> 4 [] p = "lock" -> 5 [] p = "lockwait" -> 6
      [] p = "store" -> 7 [] p = "idle" -> 8

\* C4: the calls under way never block each other for good and the map is
\* never written while it is read or written: in every state in which a call
\* is under way some call can take its next step (the return of a fetch
\* counted), every step of a call moves that call forward towards its return,
\* and while a worker holds the write lock for the map store no other worker
\* is at the map lookup or at the map store.
C4_AllReturnNoRace ==
    /\ []((\E w \in Workers : pc[w] # "idle") => ENABLED (\E w \in Workers : Progress(w)))
    /\ [](\A w, v \in Workers :
            (w # v /\ pc[w] = "store") => pc[v] \notin {"lookup", "store"})
    /\ [][\A w \in Workers :
            (pc[w] # "idle" /\ pc'[w] # pc[w]) => C4_Rank(pc'[w]) > C4_Rank(pc[w])]_vars

\* Every call that was started returns, when the workers keep running and the
\* fetches return.
AllCallsReturn == \A w \in Workers : (pc[w] # "idle") ~> (pc[w] = "idle")

\* A writer waits for the lock while another worker holds the read lock.
C4_Witness ==
    \E w, v \in Workers : pc[w] = "lockwait" /\ pc[v] = "lookup" /\ v \in mu.readers

\* C5: a fetch that fails to connect or is answered with a non-success status
\* makes loadStationData return an error and no observations; the step by
\* which a fetch returns either hands observations of a successful answer to
\* the store, or returns the error to the caller after this one attempt and
\* leaves every cache entry and the lock as they were.
C5_FetchErrorSurfaces ==
    /\ \A r \in Responses :
          (r.kind = "neterr" \/ r.status # 200) =>
              (loadStationData(r).err # NoErr /\ loadStationData(r).data = <<>>)
    /\ [][\A w \in Workers :
            (pc[w] = "fetching" /\ <<pc[w], ret[w], nfetch[w], data[w]>>' # <<pc[w], ret[w], nfetch[w], data[w]>>) =>
                \/ /\ pc'[w] = "idle"
                   /\ ret'[w].returned
                   /\ ret'[w].err \in {ErrNetwork, ErrStatus}
                   /\ ret'[w].data = <<>>
                   /\ nfetch'[w] = 1
                   /\ entries' = entries
                   /\ mu' = mu
                \/ /\ pc'[w] = "lock"
                   /\ \E r \in Responses :
                         r.kind = "http" /\ r.status = 200 /\ data'[w] = loadStationData(r).data
                   /\ nfetch'[w] = 1
                   /\ entries' = entries]_vars

\* A call has returned an error and the stale entry of its identifier is still there.
C5_Witness ==
    \E w \in Workers :
        /\ pc[w] = "idle"
        /\ ret[w].returned /\ ret[w].err # NoErr
        /\ entries[ret[w].id].exists
        /\ now - entries[ret[w].id].fetchedAt >= cacheTTL

\* C6: an identifier that has an entry keeps one in every later state, and an
\* entry changes only by the store of a successful getStationData for the
\* same identifier.
C6_EntriesNeverRemoved ==
    [][\A i \in Ids :
        entries[i].exists =>
            /\ entries'[i].exists
            /\ entries'[i] # entries[i] =>
                  \E w \in Workers :
                      /\ pc[w] = "store" /\ id[w] = i
                      /\ pc'[w] = "idle" /\ ret'[w].err = NoErr]_vars

\* An entry older than the TTL is still in the map while its identifier is being fetched again.
C6_Witness ==
    \E w \in Workers :
        /\ pc[w] = "fetching"
        /\ entries[id[w]].exists
        /\ now - entries[id[w]].fetchedAt > cacheTTL

\* C7: a request is served only after loadInventory and initStations have both
\* run and returned no error; when a load returned an error, main has ended
\* with no handler registered and without listening.
C7_ServeOnlyAfterLoads ==
    /\ (calls > 0 \/ listening \/ handlers # {}) =>
          /\ invRuns = 1 /\ loadInvRet = NoErr
          /\ stRuns = 1 /\ initStRet = NoErr
    /\ (loadInvRet \notin {NotRun, NoErr} \/ initStRet \notin {NotRun, NoErr}) =>
          /\ mainpc = "exited"
          /\ handlers = {}
          /\ ~listening
          /\ calls = 0
    /\ loadInvRet \notin {NotRun, NoErr} => stRuns = 0

\* A search has been answered after both loads succeeded.
C7_Witness ==
    /\ calls > 0
    /\ searchResp.status = StatusOK
    /\ Len(searchResp.data) > 0
    /\ loadInvRet = NoErr /\ initStRet = NoErr

\* C8 (as claimed): a load that returned success has read its feed to the end.
C8_NoPartialLoad ==
    /\ (invRuns > 0 /\ loadInvRet = NoErr) => FullyRead(invFeed)
    /\ (stRuns > 0 /\ initStRet = NoErr) => FullyRead(stFeed)

\* C9 (as claimed): after any number of runs on the same feeds the registry
\* equals its state after the first run.
C9_RerunIdempotent ==
    /\ invRuns >= 1 => inventoryMap = loadInventory(invFeed, NoMap).inventoryMap
    /\ stRuns >= 1 => allStations = initStations(stFeed, <<>>).allStations

\* Whether registry station s qualifies for the last query, as the claim states it.
C10_Qualifies(s) ==
    /\ ~s.Latitude.null /\ ~s.Longitude.null
    /\ Haversine(query.lat, query.long, s.Latitude.val, s.Longitude.val) <= 1000 * query.radius
    /\ s.ID \in DOMAIN inventoryMap
    /\ inventoryMap[s.ID].FirstYear <= query.start
    /\ inventoryMap[s.ID].LastYear >= query.end

\* C10: when limit is at least the number of qualifying stations, findStations
\* returns exactly the registry stations with both coordinates present, at a
\* distance <= radius, and with a coverage entry that has first <= startYear
\* and last >= endYear, each with its distance.
C10_ExactlyQualifying ==
    LET qualifying == {i \in 1..Len(allStations) : C10_Qualifies(allStations[i])}
        same(f, s) == /\ f.ID = s.ID /\ f.Name = s.Name
                      /\ f.Latitude = s.Latitude /\ f.Longitude = s.Longitude
    IN  (query.asked /\ query.limit >= Cardinality(qualifying)) =>
            /\ Len(found) = Cardinality(qualifying)
            /\ \A k \in 1..Len(allStations) :
                  Cardinality({j \in 1..Len(found) : same(found[j], allStations[k])})
                  = Cardinality({i \in qualifying : same(allStations[i], allStations[k])})
            /\ \A j \in 1..Len(found) : \E i \in qualifying : same(found[j], allStations[i])
            /\ \A j \in 1..Len(found) :
                  found[j].Distance = Haversine(query.lat, query.long,
                                                found[j].Latitude.val, found[j].Longitude.val)

\* A search of radius 0 up to 2020 over a registry that holds, at the query
\* point, a station covered to 1950 only and one covered to 2020, and a
\* station without latitude: the one covered to 2020 is the result.
C10_Witness ==
    /\ query.asked /\ query.radius = 0 /\ query.end = 2020 /\ query.start = 1950
    /\ query.limit = 5
    /\ IdA \in DOMAIN inventoryMap /\ inventoryMap[IdA] = Cov(1900, 1950)
    /\ IdB \notin DOMAIN inventoryMap
    /\ \E i, j, k \in 1..Len(allStations) :
          allStations[i].ID = IdA /\ allStations[j].ID = IdC /\ allStations[k].ID = IdN
    /\ Len(found) = 1 /\ found[1].ID = IdC /\ found[1].Distance = 0

\* The distance of registry station s from the point of the last query.
C11_Distance(s) == Haversine(query.lat, query.long, s.Latitude.val, s.Longitude.val)

\* C11: the list findStations returns is in ascending order of distance, and
\* the stations it holds at one distance are, in their order, the first of the
\* qualifying registry stations at that distance in registry order.
C11_AscendingStable ==
    query.asked =>
        /\ \A i, j \in 1..Len(found) : i < j => found[i].Distance <= found[j].Distance
        /\ \A d \in {found[i].Distance : i \in 1..Len(found)} :
              LET got == SelectSeq(found, LAMBDA f : f.Distance = d)
                  reg == SelectSeq(allStations,
                                   LAMBDA s : C10_Qualifies(s) /\ C11_Distance(s) = d)
              IN  /\ Len(got) <= Len(reg)
                  /\ \A k \in 1..Len(got) : got[k].ID = reg[k].ID

\* C12: for a limit >= 0 findStations returns min(limit, number of qualifying
\* stations) stations, in ascending order of distance, and no qualifying
\* station left out is nearer than the last one returned.
C12_FirstLimit ==
    LET qualifying == {i \in 1..Len(allStations) : C10_Qualifies(allStations[i])}
        n == Cardinality(qualifying)
    IN  (query.asked /\ query.limit >= 0) =>
            /\ Len(found) = (IF query.limit >= n THEN n ELSE query.limit)
            /\ \A i, j \in 1..Len(found) : i < j => found[i].Distance <= found[j].Distance
            /\ \A i \in qualifying :
                  (Len(found) > 0 /\ C11_Distance(allStations[i]) < found[Len(found)].Distance)
                      => \E j \in 1..Len(found) : found[j].ID = allStations[i].ID

\* C13: countStationsInRadius is the number of registry stations with both
\* coordinates present at a distance <= radius, whatever their coverage; a
\* search that found no station answers with the message about the time range
\* (carrying that number) when the number is > 0 and with the message about
\* the area when it is 0, and a search that found stations answers with an
\* empty message.
C13_CountAndMessage ==
    LET near == {i \in 1..Len(allStations) :
                    /\ ~allStations[i].Latitude.null /\ ~allStations[i].Longitude.null
                    /\ C11_Distance(allStations[i]) <= 1000 * query.radius}
        count == Cardinality(near)
    IN  searchResp.status = StatusOK =>
            /\ countStationsInRadius(query.lat, query.long, query.radius) = count
            /\ searchResp.data = found
            /\ (found = <<>> /\ count > 0) =>
                  /\ searchResp.errorMsg.text
                     = "There are %d stations within the radius, but none have data for the selected time range"
                  /\ searchResp.errorMsg.args = <<count, query.start, query.end>>
            /\ (found = <<>> /\ count = 0) =>
                  searchResp.errorMsg = Msg("No stations found in this area. Try increasing the radius.", <<>>)
            /\ found # <<>> => searchResp.errorMsg = NoMsg

\* A search that found nothing although two stations are within the radius,
\* one of them without a coverage entry.
C13_Witness ==
    /\ searchResp.status = StatusOK
    /\ found = <<>>
    /\ searchResp.errorMsg.args = <<2, query.start, query.end>>
    /\ \E i \in 1..Len(allStations) :
          /\ allStations[i].ID \notin DOMAIN inventoryMap
          /\ ~allStations[i].Latitude.null
          /\ C11_Distance(allStations[i]) <= 1000 * query.radius

\* The lines of the inventory feed that are at least 45 characters long, carry
\* station id sid and the element TMIN or TMAX.
C14_Lines(sid) ==
    {i \in 1..Len(invFeed.lines) :
        /\ Len(invFeed.lines[i]) >= 45
        /\ TrimSpace(SubSeq(invFeed.lines[i], 32, 35)) \in {TMIN, TMAX}
        /\ TrimSpace(SubSeq(invFeed.lines[i], 1, 11)) = sid}

C14_First(i) == DigitsVal(SubSeq(invFeed.lines[i], 37, 40))
C14_Last(i) == DigitsVal(SubSeq(invFeed.lines[i], 42, 45))

\* C14: after one run of loadInventory on a feed, from the empty index, the
\* index has an entry exactly for the station ids that have a line with
\* element TMIN or TMAX of at least 45 characters, and the entry is
\* [the least first year, the greatest last year] of these lines.
C14_WidestSpan ==
    (invRuns = 1 /\ loadInvRet = NoErr) =>
        /\ \A sid \in {IdA, IdB, IdC, IdN} : sid \in DOMAIN inventoryMap <=> C14_Lines(sid) # {}
        /\ DOMAIN inventoryMap \subseteq {IdA, IdB, IdC, IdN}
        /\ \A sid \in DOMAIN inventoryMap :
              /\ \E i \in C14_Lines(sid) : inventoryMap[sid].FirstYear = C14_First(i)
              /\ \A i \in C14_Lines(sid) : inventoryMap[sid].FirstYear <= C14_First(i)
              /\ \E i \in C14_Lines(sid) : inventoryMap[sid].LastYear = C14_Last(i)
              /\ \A i \in C14_Lines(sid) : inventoryMap[sid].LastYear >= C14_Last(i)

\* A feed whose first line gives station A the greatest last year and whose
\* second line gives it the least first year, followed by a line of another
\* element for station B: A's entry is the span of no single line, B has none.
C14_Witness ==
    /\ invRuns = 1 /\ loadInvRet = NoErr
    /\ Len(invFeed.lines) = 3
    /\ invFeed.lines[1] = InvText(IdA, TMAX, Y1900, Y1950)
    /\ invFeed.lines[2] = InvText(IdA, TMIN, Y1890, Y1940)
    /\ invFeed.lines[3] = InvText(IdB, PRCP, Y1890, Y2020)
    /\ DOMAIN inventoryMap = {IdA}
    /\ inventoryMap[IdA] = Cov(1890, 1950)

\* Whether a row of a per-station feed is one the claim says is materialized.
C15_Valid(row) ==
    /\ Len(row) >= 4
    /\ row[3] \in {TMIN, TMAX}
    /\ ParseDate(row[2]).ok
    /\ Atoi(row[4]).ok
    /\ Atoi(row[4]).val # -9999

C15_Expected(rows) ==
    LET valid == SelectSeq(Tail(rows), C15_Valid)
    IN  [k \in 1..Len(valid) |->
            [Date |-> [year |-> ParseDate(valid[k][2]).year,
                       month |-> ParseDate(valid[k][2]).month,
                       day |-> ParseDate(valid[k][2]).day],
             ElementType |-> valid[k][3],
             Value |-> Atoi(valid[k][4]).val]]

\* C15: a fetch answered with a success status and a body read to its end
\* gives, in feed order, exactly one observation for each row after the header
\* that has at least 4 columns, element TMIN or TMAX, a valid date and an
\* integer value other than -9999, and the call returns them without an error.
C15_OneObservationPerValidRow ==
    \A w \in Workers :
        (fetched[w].kind = "http" /\ fetched[w].status = StatusOK /\ ~fetched[w].broken) =>
            /\ pc[w] \in {"lock", "lockwait", "store"} => data[w] = C15_Expected(fetched[w].rows)
            /\ pc[w] = "idle" =>
                  /\ ret[w].returned /\ ret[w].err = NoErr
                  /\ ret[w].data = C15_Expected(fetched[w].rows)

\* C16: no observation held by a call, returned by a call or stored in a
\* cache entry has the value -9999 or an element other than TMIN or TMAX.
C16_NoSentinelMaterialized ==
    LET clean(list) == \A k \in 1..Len(list) :
                           list[k].Value # -9999 /\ list[k].ElementType \in {TMIN, TMAX}
    IN  /\ \A w \in Workers : clean(data[w]) /\ clean(ret[w].data) /\ clean(entry[w].data)
        /\ \A i \in Ids : clean(entries[i].data)

\* A feed with a row of value -9999 and a good row has been fetched and
\* stored: the entry holds the one observation of the good row.
C16_Witness ==
    \E w \in Workers :
        /\ pc[w] = "idle" /\ ret[w].returned /\ ret[w].err = NoErr
        /\ \E k \in 2..Len(fetched[w].rows) :
              Len(fetched[w].rows[k]) >= 4 /\ fetched[w].rows[k][4] = <<"-", "9", "9", "9", "9">>
        /\ entries[ret[w].id].exists
        /\ entries[ret[w].id].data = ret[w].data
        /\ Len(ret[w].data) = 1

\* C17: a fetch whose body fails to read after some rows ends the call with an
\* error returned to the caller.
C17_ReadFailureReturnsError ==
    \A w \in Workers :
        (fetched[w].kind = "http" /\ fetched[w].status = StatusOK /\ fetched[w].broken) =>
            /\ pc[w] = "idle"
            /\ ret[w].returned
            /\ ret[w].err # NoErr

\* The positions of the aggregated observations of element kind el and year y.
C18_InYear(el, y) ==
    {i \in 1..Len(detail.rawData) :
        detail.rawData[i].ElementType = el /\ detail.rawData[i].Date.year = y}

\* C18: calculateAnnualAvg gives exactly one summary for each calendar year
\* that has an observation, in strictly ascending order of the year whatever
\* the order of the observations; the mean of TMIN (TMAX) of a summary is
\* present if and only if its year has a TMIN (TMAX) observation, and is null
\* otherwise.
C18_OneSummaryPerYear ==
    LET years == {detail.rawData[i].Date.year : i \in 1..Len(detail.rawData)}
        A == detail.Annual
    IN  detail.asked =>
            /\ Len(A) = Cardinality(years)
            /\ {A[k].Year : k \in 1..Len(A)} = years
            /\ \A j, k \in 1..Len(A) : j < k => A[j].Year < A[k].Year
            /\ \A k \in 1..Len(A) :
                  /\ ~A[k].TMin.null <=> C18_InYear(TMIN, A[k].Year) # {}
                  /\ ~A[k].TMax.null <=> C18_InYear(TMAX, A[k].Year) # {}

\* Observations of 2021 (TMAX only) come before those of 2020 (TMIN only):
\* the summary of 2020 is the first, and each summary lacks one mean.
C18_Witness ==
    /\ detail.asked
    /\ Len(detail.rawData) >= 2
    /\ detail.rawData[1].Date.year = 2021 /\ detail.rawData[2].Date.year = 2020
    /\ Len(detail.Annual) = 2
    /\ detail.Annual[1].Year = 2020 /\ detail.Annual[1].TMax.null /\ ~detail.Annual[1].TMin.null
    /\ detail.Annual[2].Year = 2021 /\ detail.Annual[2].TMin.null /\ ~detail.Annual[2].TMax.null

\* The sum of the values of the aggregated observations at the positions I.
RECURSIVE C19_Sum(_)
C19_Sum(I) ==
    IF I = {} THEN 0
    ELSE LET i == CHOOSE x \in I : TRUE
         IN  detail.rawData[i].Value + C19_Sum(I \ {i})

\* Whether the mean p (in hundredths of a degree) is the arithmetic mean of the
\* values at the positions I (in tenths), divided by 10 and rounded to two
\* decimals, a half rounded away from zero.
C19_IsRoundedMean(p, I) ==
    LET total == C19_Sum(I)
        count == Cardinality(I)
        magnitude == (2 * 10 * (IF total < 0 THEN 0 - total ELSE total) + count) \div (2 * count)
    IN  ~p.null => p.val = (IF total < 0 THEN 0 - magnitude ELSE magnitude)

\* The positions of the aggregated observations of element kind el, year y
\* and a month of months.
C19_InSeason(el, y, months) ==
    {i \in C18_InYear(el, y) : detail.rawData[i].Date.month \in months}

C19_Months(season) ==
    CASE season = Winter -> {12, 1, 2}
      [] season = Spring -> {3, 4, 5}
      [] season = Summer -> {6, 7, 8}
      [] season = Autumn -> {9, 10, 11}

\* C19: every mean of an annual or seasonal summary that is present is the
\* arithmetic mean of the values of its kind in its group, divided by 10 and
\* rounded to two decimals.
C19_MeanRounded ==
    detail.asked =>
        /\ \A k \in 1..Len(detail.Annual) :
              LET a == detail.Annual[k]
              IN  /\ C19_IsRoundedMean(a.TMin, C18_InYear(TMIN, a.Year))
                  /\ C19_IsRoundedMean(a.TMax, C18_InYear(TMAX, a.Year))
        /\ \A k \in 1..Len(detail.Seasonal) :
              LET a == detail.Seasonal[k]
              IN  /\ C19_IsRoundedMean(a.TMin, C19_InSeason(TMIN, a.Year, C19_Months(a.Season)))
                  /\ C19_IsRoundedMean(a.TMax, C19_InSeason(TMAX, a.Year, C19_Months(a.Season)))

\* Whether the mean p is present exactly if there is a value at the positions
\* I, and is then within half a hundredth of the mean of these values.
C20_MeanOf(p, I) ==
    LET total == C19_Sum(I)
        count == Cardinality(I)
        off == p.val * count - 10 * total
    IN  /\ p.null <=> I = {}
        /\ ~p.null => (2 * (IF off < 0 THEN 0 - off ELSE off) <= count)

\* C20: calculateSeasonalAvg gives exactly one summary for each pair (calendar
\* year of the date, season of the month) that has an observation, with
\* December, January and February of one calendar year in the Winter of that
\* year, March to May in Spring, June to August in Summer and September to
\* November in Autumn, and the means of a summary are those of the
\* observations of its pair and of no others.
C20_SeasonGroups ==
    LET S == detail.Seasonal
        season(month) == IF month \in {12, 1, 2} THEN Winter
                         ELSE IF month \in {3, 4, 5} THEN Spring
                         ELSE IF month \in {6, 7, 8} THEN Summer
                         ELSE Autumn
        groups == {<<detail.rawData[i].Date.year, season(detail.rawData[i].Date.month)>> :
                      i \in 1..Len(detail.rawData)}
    IN  detail.asked =>
            /\ Len(S) = Cardinality(groups)
            /\ {<<S[k].Year, S[k].Season>> : k \in 1..Len(S)} = groups
            /\ \A k \in 1..Len(S) :
                  /\ C20_MeanOf(S[k].TMin, C19_InSeason(TMIN, S[k].Year, C19_Months(S[k].Season)))
                  /\ C20_MeanOf(S[k].TMax, C19_InSeason(TMAX, S[k].Year, C19_Months(S[k].Season)))

\* The TMAX values -200 of December 2021 and -100 of January 2021 are in one
\* group, the Winter of 2021, with the mean -15.00.
C20_Witness ==
    /\ detail.asked
    /\ Len(detail.rawData) = 2
    /\ detail.rawData[1] = Obs(2021, 12, 31, TMAX, -200)
    /\ detail.rawData[2] = Obs(2021, 1, 1, TMAX, -100)
    /\ Len(detail.Seasonal) = 1
    /\ detail.Seasonal[1].Year = 2021 /\ detail.Seasonal[1].Season = Winter
    /\ detail.Seasonal[1].TMax = PtrF(-1500)

\* The place of a season in the order Winter, Spring, Summer, Autumn.
C21_Place(season) ==
    CASE season = Winter -> 1
      [] season = Spring -> 2
      [] season = Summer -> 3
      [] season = Autumn -> 4
      [] OTHER -> 5

\* C21: the output of calculateSeasonalAvg is in strictly ascending order of
\* (year, place of the season in Winter, Spring, Summer, Autumn), whatever the
\* order of the observations, so that no two of its summaries have the same
\* year and season.
C21_SortedByYearThenSeason ==
    LET S == detail.Seasonal
    IN  detail.asked =>
            /\ \A k \in 1..Len(S) : C21_Place(S[k].Season) <= 4
            /\ \A j, k \in 1..Len(S) :
                  j < k => \/ S[j].Year < S[k].Year
                           \/ /\ S[j].Year = S[k].Year
                              /\ C21_Place(S[j].Season) < C21_Place(S[k].Season)
            /\ \A j, k \in 1..Len(S) :
                  (S[j].Year = S[k].Year /\ S[j].Season = S[k].Season) => j = k

\* Four observations of 2020 given in the order Autumn, Summer, Spring, Winter:
\* the four summaries are those of Winter, Spring, Summer, Autumn.
C21_Witness ==
    /\ detail.asked
    /\ Len(detail.rawData) = 4
    /\ \A i \in 1..4 : detail.rawData[i].Date.year = 2020
    /\ <<detail.rawData[1].Date.month, detail.rawData[2].Date.month,
         detail.rawData[3].Date.month, detail.rawData[4].Date.month>> = <<9, 6, 3, 1>>
    /\ Len(detail.Seasonal) = 4
    /\ <<detail.Seasonal[1].Season, detail.Seasonal[2].Season,
         detail.Seasonal[3].Season, detail.Seasonal[4].Season>>
       = <<Winter, Spring, Summer, Autumn>>

\* The rows after the header of the feed the last fetch received that have the
\* header's four columns, element el, a valid date of year y and of a month of
\* months, and an integer value other than -9999.
C22_Valued(el, y, months) ==
    {k \in 2..Len(fetched[1].rows) :
        LET row == fetched[1].rows[k]
        IN  /\ Len(row) = 4
            /\ row[3] = el
            /\ ParseDate(row[2]).ok
            /\ ParseDate(row[2]).year = y
            /\ ParseDate(row[2]).month \in months
            /\ Atoi(row[4]).ok
            /\ Atoi(row[4]).val # -9999}

RECURSIVE C22_Sum(_)
C22_Sum(K) ==
    IF K = {} THEN 0
    ELSE LET k == CHOOSE x \in K : TRUE
         IN  Atoi(fetched[1].rows[k][4]).val + C22_Sum(K \ {k})

\* Whether the mean p is present exactly if K is not empty, and is then within
\* half a hundredth of the mean of the values of the rows K.
C22_MeanOfRows(p, K) ==
    LET off == p.val * Cardinality(K) - 10 * C22_Sum(K)
    IN  /\ p.null <=> K = {}
        /\ ~p.null => 2 * Abs(off) <= Cardinality(K)

\* The last station-detail answer is that of a request whose fetch succeeded.
C22_AnsweredFromFetch ==
    /\ stationResp.status = StatusOK
    /\ pc[1] = "idle" /\ ~ret[1].returned
    /\ fetched[1].kind = "http" /\ fetched[1].status = StatusOK

\* C22: the value -9999 is in no sum and no count of an aggregated output. No
\* aggregated observation has the value -9999, and the means of every annual
\* and seasonal summary answered after a fetch are those of the rows of the
\* feed whose value is not -9999: for a year with the rows TMIN 100 and
\* TMIN -9999 the annual mean of TMIN is 10.0.
C22_SentinelNotAggregated ==
    /\ \A i \in 1..Len(detail.rawData) : detail.rawData[i].Value # -9999
    /\ C22_AnsweredFromFetch =>
          /\ \A k \in 1..Len(stationResp.data.Annual) :
                LET a == stationResp.data.Annual[k]
                IN  /\ C22_MeanOfRows(a.TMin, C22_Valued(TMIN, a.Year, 1..12))
                    /\ C22_MeanOfRows(a.TMax, C22_Valued(TMAX, a.Year, 1..12))
          /\ \A k \in 1..Len(stationResp.data.Seasonal) :
                LET a == stationResp.data.Seasonal[k]
                IN  /\ C22_MeanOfRows(a.TMin, C22_Valued(TMIN, a.Year, C19_Months(a.Season)))
                    /\ C22_MeanOfRows(a.TMax, C22_Valued(TMAX, a.Year, C19_Months(a.Season)))
          /\ (fetched[1].rows = BodyA) =>
                stationResp.data.Annual = <<[Year |-> 2020, TMin |-> PtrF(1000), TMax |-> NilF]>>

\* A feed whose rows of 2020 are TMIN 100 and TMIN -9999 has been fetched and
\* answered with the annual mean 10.00 of TMIN.
C22_Witness ==
    /\ C22_AnsweredFromFetch
    /\ fetched[1].rows[2][4] = <<"1", "0", "0">>
    /\ fetched[1].rows[3][4] = <<"-", "9", "9", "9", "9">>
    /\ fetched[1].rows[2][2] = fetched[1].rows[3][2]
    /\ fetched[1].rows[2][3] = TMIN /\ fetched[1].rows[3][3] = TMIN
    /\ Len(stationResp.data.Annual) = 1
    /\ stationResp.data.Annual[1].TMin = PtrF(1000)

\* C23: for an input without observations (nil or an empty list) both
\* calculateAnnualAvg and calculateSeasonalAvg return, and what they return is
\* the empty list.
C23_EmptyInputEmptyOutput ==
    /\ ~detail.asked => ENABLED Aggregate(<<>>)
    /\ (detail.asked /\ detail.rawData = <<>>) =>
          /\ detail.Annual = <<>>
          /\ detail.Seasonal = <<>>
          /\ Len(calculateAnnualAvg(<<>>)) = 0
          /\ Len(calculateSeasonalAvg(<<>>)) = 0

\* The two aggregations have been run on an input without observations.
C23_Witness ==
    /\ detail.asked
    /\ Len(detail.rawData) = 0
    /\ Len(detail.Annual) = 0
    /\ Len(detail.Seasonal) = 0

\* C24: an answer of the search that carries a message carries the empty
\* list, and an answer of the station detail that carries a message carries
\* null and no summaries (and one that carries summaries carries no message);
\* when getStationData has returned an error, the answer is status 500, the
\* text of that error and null.
C24_ErrorsCarryNoData ==
    /\ [](searchResp.errorMsg # NoMsg => Len(searchResp.data) = 0)
    /\ [](stationResp.errorMsg # NoMsg =>
             /\ stationResp.data.null
             /\ Len(stationResp.data.Annual) = 0 /\ Len(stationResp.data.Seasonal) = 0
             /\ stationResp.status \in {StatusBadRequest, StatusInternalServerError})
    /\ [](~stationResp.data.null => stationResp.errorMsg.text = "" /\ stationResp.status = StatusOK)
    /\ [][(pc[1] = "idle" /\ ret[1].returned /\ ret[1].err # NoErr /\ ret'[1] # ret[1]) =>
             /\ stationResp'.status = 500
             /\ stationResp'.errorMsg.text = ret[1].err
             /\ stationResp'.data.null
             /\ detail' = detail]_vars

\* A fetch has failed while the cache holds an older entry with observations
\* for the same identifier: the answer is 500 with the error text and null.
C24_Witness ==
    /\ stationResp.status = 500
    /\ stationResp.errorMsg.text = ErrStatus
    /\ stationResp.data.null
    /\ pc[1] = "idle" /\ ~ret[1].returned
    /\ fetched[1].kind = "http" /\ fetched[1].status = 404
    /\ \A i \in Ids : entries[i].exists => Len(entries[i].data) > 0
    /\ \E i \in Ids : entries[i].exists
    /\ calls = 2

\* Whether a text is a decimal numeral: an optional sign, digits with at most
\* one point among them, at least one digit.
C25_Numeric(text) ==
    LET body == IF Len(text) > 0 /\ text[1] \in {"+", "-"} THEN Tail(text) ELSE text
    IN  /\ \A i \in 1..Len(body) : body[i] \in Digits \cup {"."}
        /\ Cardinality({i \in 1..Len(body) : body[i] = "."}) <= 1
        /\ \E i \in 1..Len(body) : body[i] \in Digits

\* A search request in which a parameter is missing or not numeric.
C25_Flawed(req) ==
    \E f \in {"lat", "long", "radius", "limit", "start", "end"} :
        req[f] = <<>> \/ ~C25_Numeric(req[f])

C26_RegistryUntouched ==
    /\ [][allStations' = allStations /\ inventoryMap' = inventoryMap]_vars
    /\ [](\A i \in 1..Len(allStations) : allStations[i].Distance = 0)
    /\ [](query.asked =>
             \A j \in 1..Len(found) :
                 found[j].Distance = Haversine(query.lat, query.long,
                                               found[j].Latitude.val, found[j].Longitude.val))

\* Two searches have been answered, the last with a station at a distance
\* greater than 0 whose record in the station list has no distance.
C26_Witness ==
    /\ calls = 2
    /\ query.asked
    /\ searchResp.status = StatusOK
    /\ \E j \in 1..Len(found) :
          /\ found[j].Distance > 0
          /\ \E i \in 1..Len(allStations) :
                allStations[i].ID = found[j].ID /\ allStations[i].Distance = 0

\* The lines of the station directory of at least 71 characters, in feed order.
C27_Long == SelectSeq(stFeed.lines, LAMBDA line : Len(line) >= 71)

\* The coordinate a column gives: its number (of the two numerals the feeds
\* of the model hold), or 0 when its text is no decimal numeral.
C27_Coord(text) ==
    IF ~C25_Numeric(text) THEN 0
    ELSE CASE text = Lat48 -> 480000
           [] text = Long8 -> 80000

C28_Within ==
    {k \in 1..Len(C27_Long) :
        Haversine(query.lat, query.long,
                  C27_Coord(TrimSpace(SubSeq(C27_Long[k], 13, 20))),
                  C27_Coord(TrimSpace(SubSeq(C27_Long[k], 22, 30)))) <= 1000 * query.radius}

C29_Result == [r \in UNION {Upstream(i) : i \in Ids} |-> loadStationData(r).data]

\* The observations a successful fetch for each identifier can return.
C29_DataOf ==
    [i \in Ids |->
        {C29_Result[r] : r \in {x \in Upstream(i) : x.kind = "http" /\ x.status = StatusOK}}]

\* C29: in every interleaving of the calls, on an upstream whose observations
\* differ from station to station: a call that has fetched holds, stores and
\* returns the result of its own fetch for its own identifier; a call served
\* from the cache returns the data of the entry it read under its identifier;
\* the data of the entry of an identifier are always observations of that
\* identifier, and an entry changes only by the store of a call for the same
\* identifier that writes the unmodified result of its own fetch.
C29_OwnIdentifierData ==
    /\ [](\A i \in Ids : entries[i].exists => entries[i].data \in C29_DataOf[i])
    /\ [](\A w \in Workers :
            /\ pc[w] \in {"lock", "lockwait", "store"} =>
                  /\ fetched[w] \in Upstream(id[w])
                  /\ data[w] = C29_Result[fetched[w]]
                  /\ data[w] \in C29_DataOf[id[w]]
            /\ (pc[w] = "check" /\ entry[w].exists) => entry[w].data \in C29_DataOf[id[w]]
            /\ (ret[w].returned /\ ret[w].err = NoErr) =>
                  /\ ret[w].data \in C29_DataOf[ret[w].id]
                  /\ fetched[w] # NoFetch =>
                        /\ fetched[w] \in Upstream(ret[w].id)
                        /\ ret[w].data = C29_Result[fetched[w]])
    /\ [][\A w \in Workers :
            (pc[w] = "check" /\ pc'[w] = "idle") =>
                /\ ret'[w].err = NoErr /\ ret'[w].id = id[w]
                /\ ret'[w].data = entry[w].data
                /\ entries[id[w]].exists]_vars
    /\ [][\A i \in Ids :
            entries'[i] # entries[i] =>
                \E w \in Workers :
                    /\ pc[w] = "store" /\ id[w] = i /\ pc'[w] = "idle"
                    /\ fetched[w] \in Upstream(i)
                    /\ entries'[i].data = C29_Result[fetched[w]]
                    /\ ret'[w].data = entries'[i].data]_vars

\* Two calls on different identifiers have run interleaved: while one worker
\* is about to store the observations it fetched for its identifier, the
\* other has stored and returned those of the other identifier.
C29_Witness ==
    \E w, v \in Workers :
        /\ w # v
        /\ pc[w] = "store" /\ Len(data[w]) = 2
        /\ pc[v] = "idle" /\ ret[v].returned /\ ret[v].err = NoErr
        /\ ret[v].id # id[w]
        /\ entries[ret[v].id].exists
        /\ entries[ret[v].id].data = ret[v].data
        /\ ~entries[id[w]].exists

\* The years of the summaries of a list.
C30_Years(list) == {list[i].Year : i \in 1..Len(list)}

\* The seasonal summaries of a year.
C30_SeasonsOf(year) ==
    {j \in 1..Len(detail.Seasonal) : detail.Seasonal[j].Year = year}

\* C30: for the same observations, the years of the summaries of
\* calculateSeasonalAvg are the years of the summaries of calculateAnnualAvg,
\* and the annual mean of the minima (of the maxima) of a year is present
\* exactly if a seasonal summary of that year has its mean of the minima (of
\* the maxima) present.
C30_YearsAndMeansAgree ==
    detail.asked =>
        /\ C30_Years(detail.Seasonal) = C30_Years(detail.Annual)
        /\ \A i \in 1..Len(detail.Annual) :
              LET a == detail.Annual[i]
              IN  /\ ~a.TMin.null <=>
                        \E j \in C30_SeasonsOf(a.Year) : ~detail.Seasonal[j].TMin.null
                  /\ ~a.TMax.null <=>
                        \E j \in C30_SeasonsOf(a.Year) : ~detail.Seasonal[j].TMax.null

\* Both aggregations have run on observations of two years: in one year the
\* annual summary has both means while one of its seasons lacks the mean of
\* the minima and another lacks the mean of the maxima; in the other year the
\* annual summary and every season lack the mean of the maxima.
C30_Witness ==
    /\ detail.asked
    /\ \E i, k \in 1..Len(detail.Annual) :
          /\ ~detail.Annual[i].TMin.null /\ ~detail.Annual[i].TMax.null
          /\ \E j \in C30_SeasonsOf(detail.Annual[i].Year) : detail.Seasonal[j].TMin.null
          /\ \E j \in C30_SeasonsOf(detail.Annual[i].Year) : detail.Seasonal[j].TMax.null
          /\ detail.Annual[k].TMax.null /\ ~detail.Annual[k].TMin.null
          /\ C30_SeasonsOf(detail.Annual[k].Year) # {}
          /\ \A j \in C30_SeasonsOf(detail.Annual[k].Year) : detail.Seasonal[j].TMax.null

====
